---- MODULE Spec2Model ----
(***************************************************************************)
(* Model of knqyf263/sou: the tar-backed virtual filesystem (package       *)
(* tarfs), the layer cache and the layer materializer (package container). *)
(*                                                                         *)
(* The specifications share the module's variables; the first three are:   *)
(*   SpecFS    - one indexed archive, sequential Open / ReadDir / ReadFile *)
(*               / GetFiles calls;                                         *)
(*   SpecRead  - goroutines reading concurrently through file handles of   *)
(*               one filesystem (readerAtWrapper.ReadAt step by step);     *)
(*   SpecLayer - InitializeLayer of several layers step by step, with the  *)
(*               process-wide cache, the scratch directory and the disk,   *)
(*               and CleanupCache.                                         *)
(* SpecNames, SpecKeys and SpecIndex index other archives, SpecMain is     *)
(* main.go's run(), SpecCache and SpecCacheAll are the cache's goroutines, *)
(* SpecPull is NewImage's pull, SpecPicker the file picker and SpecUI the  *)
(* UI's Update.                                                            *)
(*                                                                         *)
(* A path (a Go string) is the sequence of its "/"-separated segments:     *)
(* "a/b" is <<"a","b">>, "./a" is <<".","a">>, "/a" is <<"","a">>, "a/" is *)
(* <<"a","">>, "" is <<"">>, "." is <<".">> and "/" is <<"","">>.          *)
(***************************************************************************)
EXTENDS Integers, Sequences, FiniteSets, TLC

\* ------------------------------------------------------------------ bounds
\* Cells of one archive block (tar's 512 bytes, scaled down).
BlockSize == 2
\* Members of an archive of SpecFS.
MaxMembers == 3
\* Largest page size handed to File.ReadDir.
MaxPage == 2
\* Goroutines reading at the same time in SpecRead.
NumReaders == 2
\* Updates the registry client sends during one pull, and their largest Total.
MaxUpdates == 2
MaxTotal == 2
\* The picker: characters typed after the "/" of a filter.
MaxFilter == 1
\* The UI: layer loads requested in one run, and the values progressChan holds.
MaxLoads == 3
ChanSize == 1
\* Largest declared size of a layer and largest number of members of its blob.
MaxSize == 2
\* IO failures the environment injects in one run of SpecLayer.
MaxFaults == 1

\* ------------------------------------------------------------- path (Go's)
Last(s) == s[Len(s)]
Front(s) == SubSeq(s, 1, Len(s) - 1)

\* A path is rooted when its string starts with "/".
IsRooted(p) == Len(p) >= 2 /\ p[1] = ""

\* The elements path.Clean keeps, left to right: empty and "." elements are
\* dropped, ".." removes the element before it when there is one that is not
\* "..", is dropped at the start of a rooted path and kept otherwise.
RECURSIVE CleanElems(_, _, _, _)
CleanElems(p, i, out, rooted) ==
    IF i > Len(p) THEN out
    ELSE IF p[i] = "" \/ p[i] = "." THEN CleanElems(p, i + 1, out, rooted)
    ELSE IF p[i] = ".." THEN
        IF Len(out) > 0 /\ Last(out) # ".."
            THEN CleanElems(p, i + 1, Front(out), rooted)
        ELSE IF rooted THEN CleanElems(p, i + 1, out, rooted)
        ELSE CleanElems(p, i + 1, Append(out, ".."), rooted)
    ELSE CleanElems(p, i + 1, Append(out, p[i]), rooted)

\* path.Clean
Clean(p) ==
    LET rooted == IsRooted(p)
        out == CleanElems(p, 1, <<>>, rooted)
    IN  IF rooted THEN (IF out = <<>> THEN <<"", "">> ELSE <<"">> \o out)
        ELSE IF out = <<>> THEN <<".">> ELSE out

\* path.Dir: everything up to and including the last "/", cleaned.
Dir(p) == IF Len(p) = 1 THEN Clean(<<"">>) ELSE Clean(Append(Front(p), ""))

\* path.Base: the last element, after trailing slashes are removed.
RECURSIVE StripTrailingSlashes(_)
StripTrailingSlashes(p) ==
    IF Len(p) > 1 /\ Last(p) = "" THEN StripTrailingSlashes(Front(p)) ELSE p

Base(p) ==
    IF p = <<"">> THEN "."
    ELSE LET q == StripTrailingSlashes(p)
         IN  IF q = <<"">> THEN "/" ELSE Last(q)

\* filepath.Join(dir, name) for a one-element name: the two joined by "/", cleaned.
Join(dir, name) == Clean(dir \o <<name>>)

\* ------------------------------------------------------------- the archive
\* A member of a tar archive: its header's name, type flag and link name, and
\* its content (the header's size is the content's length).
Member(name, typeflag, linkname, content) ==
    [name |-> name, typeflag |-> typeflag, linkname |-> linkname, content |-> content]

NoLink == <<"">>

\* The members archives are drawn from.
MemberPool ==
    { Member(<<"a">>, "dir", NoLink, <<>>),
      Member(<<"a", "f">>, "reg", NoLink, <<11>>),
      Member(<<"a", "f">>, "reg", NoLink, <<12, 13, 14>>),
      Member(<<"f">>, "reg", NoLink, <<15, 16>>),
      Member(<<"h">>, "link", <<"f">>, <<>>),
      Member(<<"g">>, "link", <<"h">>, <<>>),
      Member(<<".", "">>, "dir", NoLink, <<>>),
      Member(<<".", "f">>, "reg", NoLink, <<17>>) }

RECURSIVE SeqsUpTo(_, _)
SeqsUpTo(S, n) ==
    IF n = 0 THEN {<<>>}
    ELSE LET shorter == SeqsUpTo(S, n - 1)
         IN  shorter \cup {Append(s, x) : s \in {t \in shorter : Len(t) = n - 1}, x \in S}

Archives == SeqsUpTo(MemberPool, MaxMembers)

\* The content padded with zero cells to whole blocks.
Padded(n) == ((n + BlockSize - 1) \div BlockSize) * BlockSize

RECURSIVE Zeros(_)
Zeros(n) == IF n = 0 THEN <<>> ELSE Append(Zeros(n - 1), 0)

RECURSIVE HeaderBlock(_, _)
HeaderBlock(k, n) == IF n = 0 THEN <<>> ELSE Append(HeaderBlock(k, n - 1), 0 - k)

\* The archive as the byte stream of a tar file: per member a header block
\* (cells -k for member k) and the content padded to whole blocks, then the
\* two zero blocks that end the archive.
RECURSIVE TarStream(_, _)
TarStream(ar, k) ==
    IF k > Len(ar) THEN Zeros(2 * BlockSize)
    ELSE HeaderBlock(k, BlockSize) \o ar[k].content
           \o Zeros(Padded(Len(ar[k].content)) - Len(ar[k].content))
           \o TarStream(ar, k + 1)

\* ------------------------------------------------------------------- tarfs
\* The byte tarfs.Header.typeflag holds, by name.
TypeFlags == {"reg", "dir", "link", "symlink"}

\* tarfs.Header (mode and modTime are carried but never decide anything).
Header(typeflag, name, linkname, size) ==
    [typeflag |-> typeflag, name |-> name, linkname |-> linkname, size |-> size]

\* Header.Name
HeaderName(h) == Base(h.name)

\* Header.IsDir
IsDir(h) == h.typeflag = "dir"

\* tarfs.Entry; Children holds entries by their index in the filesystem's
\* entry store (a *Entry): entry 1 is the pseudo root, entry k+1 is member k.
Entry(h, offset, size) == [Header |-> h, Offset |-> offset, Size |-> size, Children |-> <<>>]

PseudoRoot == Entry(Header("dir", <<"">>, <<"">>, 0), 0, 0)

\* NewMember with the offset taken before the header is read.
NewMember_OffsetBeforeHeader(st, m) ==
    LET filePath == Clean(m.name)
        idx == Len(st.entries) + 1
        entry == Entry(Header(m.typeflag, filePath, m.linkname, Len(m.content)),
                       st.next, Len(m.content))
        fileMap1 == [p \in DOMAIN st.fileMap \cup {filePath} |->
                        IF p = filePath THEN idx ELSE st.fileMap[p]]
    IN  [entries |-> Append(st.entries, entry),
         fileMap |-> fileMap1,
         next |-> st.next + BlockSize + Padded(Len(m.content))]

\* NewMember that hangs a member whose parent path is no key under the root.
NewMember_LinkUnderRoot(st, m) ==
    LET pos == st.next + BlockSize
        filePath == Clean(m.name)
        idx == Len(st.entries) + 1
        entry == Entry(Header(m.typeflag, filePath, m.linkname, Len(m.content)),
                       pos, Len(m.content))
        entries1 == Append(st.entries, entry)
        fileMap1 == [p \in DOMAIN st.fileMap \cup {filePath} |->
                        IF p = filePath THEN idx ELSE st.fileMap[p]]
        parentDir == IF Dir(filePath) \in DOMAIN fileMap1 THEN Dir(filePath) ELSE <<".">>
    IN  [entries |-> [entries1 EXCEPT ![fileMap1[parentDir]].Children = Append(@, idx)],
         fileMap |-> fileMap1,
         next |-> pos + Padded(Len(m.content))]

\* One turn of the loop of tarfs.New: tr.Next() has read member k's header, so
\* the reader stands at the start of its content; the entry is stored under
\* its cleaned name and appended to the entry at its parent path, if any.
NewMember(st, m) ==
    LET pos == st.next + BlockSize
        filePath == Clean(m.name)
        idx == Len(st.entries) + 1
        entry == Entry(Header(m.typeflag, filePath, m.linkname, Len(m.content)),
                       pos, Len(m.content))
        entries1 == Append(st.entries, entry)
        fileMap1 == [p \in DOMAIN st.fileMap \cup {filePath} |->
                        IF p = filePath THEN idx ELSE st.fileMap[p]]
        parentDir == Dir(filePath)
    IN  [entries |->
            IF parentDir \in DOMAIN fileMap1
            THEN [entries1 EXCEPT ![fileMap1[parentDir]].Children = Append(@, idx)]
            ELSE entries1,
         fileMap |-> fileMap1,
         next |-> pos + Padded(Len(m.content))]

RECURSIVE NewLoop(_, _, _)
NewLoop(ar, k, st) ==
    IF k > Len(ar) THEN st ELSE NewLoop(ar, k + 1, NewMember(st, ar[k]))

\* tarfs.New on the stream of archive ar: the index, and where the loop leaves
\* the reader (past the two zero blocks that end the archive).
New(ar) ==
    LET st == NewLoop(ar, 1, [entries |-> <<PseudoRoot>>,
                              fileMap |-> [p \in {<<".">>} |-> 1],
                              next |-> 0])
    IN  [entries |-> st.entries, fileMap |-> st.fileMap,
         endPos |-> st.next + 2 * BlockSize]

\* No filesystem (a nil *tarfs.FS).
NilFS == [entries |-> <<>>, fileMap |-> <<>>, endPos |-> 0]

\* tarfs.File: the header it promotes, the io.SectionReader over
\* [base, limit) with its absolute position off, the children and readPos.
File(h, base, size, children) ==
    [Header |-> h, base |-> base, off |-> base, limit |-> base + size,
     children |-> children, readPos |-> 0]

NilFile == File(Header("", <<"">>, <<"">>, 0), 0, 0, <<>>)

\* What FS.Open returns: the handle, or the *fs.PathError with its Err and
\* its Path (err is "" on success).
Opened(name, f) == [err |-> "", path |-> name, file |-> f]
OpenError(name, err) == [err |-> err, path |-> name, file |-> NilFile]

\* FS.Open over the entries at fileMap[key], asked for name.
OpenKey(tfs, key, name) ==
    IF key \notin DOMAIN tfs.fileMap
    THEN OpenError(name, "not exist")
    ELSE LET entry == tfs.entries[tfs.fileMap[key]]
         IN  IF entry.Header.typeflag = "link"
             THEN IF entry.Header.linkname \notin DOMAIN tfs.fileMap
                  THEN OpenError(name, "target not found")
                  ELSE LET targetEntry == tfs.entries[tfs.fileMap[entry.Header.linkname]]
                       IN  Opened(name, File(targetEntry.Header, targetEntry.Offset,
                                             targetEntry.Size, targetEntry.Children))
             ELSE Opened(name, File(entry.Header, entry.Offset, entry.Size,
                                    entry.Children))

\* Open_CleanName: Open looking up path.Clean(name).
Open_CleanName(tfs, name) == OpenKey(tfs, Clean(name), name)

\* FS.Open: the name is looked up as it is given.
Open(tfs, name) == OpenKey(tfs, name, name)

\* io.ReadFull(w.r, p) with the reader at pos and len(p) = n.
ReadFull(stream, pos, n) ==
    LET avail == IF pos >= Len(stream) THEN 0 ELSE Len(stream) - pos
        got == IF n <= avail THEN n ELSE avail
    IN  [data |-> SubSeq(stream, pos + 1, pos + got),
         pos |-> pos + got,
         err |-> IF got = n THEN "" ELSE IF got = 0 THEN "EOF" ELSE "unexpected EOF"]

\* readerAtWrapper.ReadAt run without interruption: the position is saved,
\* the reader is moved to off, read and moved back.
ReadAt(stream, streamAt, n, off) ==
    LET current == streamAt
        r == ReadFull(stream, off, n)
    IN  [data |-> r.data, err |-> r.err, pos |-> current]

\* File.Read with len(p) = n (io.SectionReader.Read).
FileRead(stream, streamAt, f, n) ==
    IF f.off >= f.limit
    THEN [data |-> <<>>, err |-> "EOF", file |-> f, pos |-> streamAt]
    ELSE LET max == f.limit - f.off
             len == IF n > max THEN max ELSE n
             r == ReadAt(stream, streamAt, len, f.off)
         IN  [data |-> r.data, err |-> r.err,
              file |-> [f EXCEPT !.off = f.off + Len(r.data)], pos |-> r.pos]

\* File.Seek (io.SectionReader.Seek): the new position is relative to the
\* start of the window, and a position before it is refused.
FileSeek(f, offset, whence) ==
    LET abs == CASE whence = "start" -> offset + f.base
                 [] whence = "current" -> offset + f.off
                 [] OTHER -> offset + f.limit
    IN  IF abs < f.base
        THEN [ret |-> 0, err |-> "negative position", file |-> f]
        ELSE [ret |-> abs - f.base, err |-> "", file |-> [f EXCEPT !.off = abs]]

\* io.ReadAll(file): Read until end of data.
ReadAll(stream, streamAt, f) ==
    IF f.off >= f.limit
    THEN [data |-> <<>>, err |-> "", pos |-> streamAt]
    ELSE LET r == ReadAt(stream, streamAt, f.limit - f.off, f.off)
         IN  [data |-> r.data, err |-> r.err, pos |-> r.pos]

\* ReadDir reporting the end of the listing one child early.
ReadDir_EarlyEnd(f, n) ==
    LET remaining == Len(f.children) - f.readPos
    IN  IF remaining <= 1
        THEN [entries |-> <<>>, err |-> IF n <= 0 THEN "" ELSE "EOF", file |-> f]
        ELSE LET cnt == IF n <= 0 \/ n > remaining THEN remaining ELSE n
             IN  [entries |-> SubSeq(f.children, f.readPos + 1, f.readPos + cnt),
                  err |-> "",
                  file |-> [f EXCEPT !.readPos = f.readPos + cnt]]

\* ReadDir that returns the remaining children for n <= 0 and leaves readPos.
ReadDir_AllKeepsCursor(f, n) ==
    LET remaining == Len(f.children) - f.readPos
        cnt == IF n <= 0 \/ n > remaining THEN remaining ELSE n
    IN  IF ~IsDir(f.Header)
        THEN [entries |-> <<>>, err |-> "invalid argument", file |-> f]
        ELSE IF remaining = 0
        THEN [entries |-> <<>>, err |-> IF n <= 0 THEN "" ELSE "EOF", file |-> f]
        ELSE [entries |-> SubSeq(f.children, f.readPos + 1, f.readPos + cnt),
              err |-> "",
              file |-> IF n <= 0 THEN f ELSE [f EXCEPT !.readPos = f.readPos + cnt]]

\* ReadDir that returns no error at the end of the listing for every n.
ReadDir_NoEOF(f, n) ==
    LET remaining == Len(f.children) - f.readPos
        cnt == IF n <= 0 \/ n > remaining THEN remaining ELSE n
    IN  IF ~IsDir(f.Header)
        THEN [entries |-> <<>>, err |-> "invalid argument", file |-> f]
        ELSE [entries |-> SubSeq(f.children, f.readPos + 1, f.readPos + cnt),
              err |-> "",
              file |-> [f EXCEPT !.readPos = f.readPos + cnt]]

\* ReadDir without the IsDir check.
ReadDir_NoDirCheck(f, n) ==
    LET remaining == Len(f.children) - f.readPos
        cnt == IF n <= 0 \/ n > remaining THEN remaining ELSE n
    IN  IF remaining = 0
        THEN [entries |-> <<>>, err |-> IF n <= 0 THEN "" ELSE "EOF", file |-> f]
        ELSE [entries |-> SubSeq(f.children, f.readPos + 1, f.readPos + cnt),
              err |-> "",
              file |-> [f EXCEPT !.readPos = f.readPos + cnt]]

\* File.ReadDir: the entries returned (by entry index), the error and the file
\* with its cursor moved.
ReadDir(f, n) ==
    IF ~IsDir(f.Header)
    THEN [entries |-> <<>>, err |-> "invalid argument", file |-> f]
    ELSE LET remaining == Len(f.children) - f.readPos
         IN  IF remaining = 0
             THEN [entries |-> <<>>, err |-> IF n <= 0 THEN "" ELSE "EOF", file |-> f]
             ELSE LET cnt == IF n <= 0 \/ n > remaining THEN remaining ELSE n
                  IN  [entries |-> SubSeq(f.children, f.readPos + 1, f.readPos + cnt),
                       err |-> "",
                       file |-> [f EXCEPT !.readPos = f.readPos + cnt]]

\* The names of a listing (DirEntry.Name of each entry).
Names(tfs, idxs) == [i \in 1..Len(idxs) |-> HeaderName(tfs.entries[idxs[i]].Header)]

\* Layer.ReadFile on a layer whose filesystem is tfs (ready tells l.fs # nil).
LayerReadFile(ready, tfs, stream, streamAt, path) ==
    IF ~ready THEN [data |-> <<>>, err |-> "layer not initialized", pos |-> streamAt]
    ELSE LET o == Open(tfs, path)
         IN  IF o.err # "" THEN [data |-> <<>>, err |-> o.err, pos |-> streamAt]
             ELSE ReadAll(stream, streamAt, o.file)

\* Layer.GetFiles: one File{Name, IsDir, Path, Size} per entry of ReadDir(-1).
LayerGetFiles(ready, tfs, path) ==
    IF ~ready THEN [files |-> <<>>, err |-> "layer not initialized"]
    ELSE LET o == Open(tfs, path)
         IN  IF o.err # "" THEN [files |-> <<>>, err |-> o.err]
             ELSE LET r == ReadDir(o.file, 0 - 1)
                  IN  IF r.err # "" THEN [files |-> <<>>, err |-> r.err]
                      ELSE [files |->
                              [i \in 1..Len(r.entries) |->
                                 LET h == tfs.entries[r.entries[i]].Header
                                 IN  [Name |-> HeaderName(h), IsDir |-> IsDir(h),
                                      Path |-> Join(path, HeaderName(h)),
                                      Size |-> h.size]],
                            err |-> ""]

\* ------------------------------------------------------------------ state
VARIABLES
    archive,    \* the members of the layer's archive
    layerFS,    \* Layer.fs: [ready, tfs]
    streamPos,  \* the position of the reader the filesystem shares (FS.reader)
    handle,     \* SpecFS: the fs.File the caller holds: [open, name, file]
    listed,     \* SpecFS: the entries ReadDir has returned on that handle
    pageOne,    \* SpecFS: every ReadDir on that handle so far was ReadDir(1)
    ret,        \* SpecFS: what the last call returned
    gor,        \* SpecRead: per goroutine, its handle and its place in ReadAt
    mu,         \* SpecRead: per readerAtWrapper, the goroutine holding its mutex
    cacheDir,       \* cache.go cacheDir: "" until the scratch directory is made
    cacheDirOnce,   \* cache.go cacheDirOnce has run
    layerCache,     \* cache.go layerCache: DiffID -> path (NoPath: no entry)
    files,          \* the disk: path -> inode, for the paths that exist
    dirExists,      \* the disk: the scratch directory exists
    inodes,         \* the disk: inode -> content (one cell per archive member)
    lay,            \* per Layer: l.fs and the locals of its InitializeLayer call
    diffID,         \* per Layer: l.DiffID
    blob,           \* the blob source: declared size, members, malformed DiffIDs
    damage,         \* SpecIndex: where the archive file ends, which header is malformed
    faults,         \* IO failures injected so far
    mainPC,         \* main.go: where run() stands
    sigPC,          \* main.go: where the signal-handling goroutine stands
    uiResult,       \* main.go: how p.Run() returned
    cleanupCalls,   \* main.go: calls of cleanup() so far
    pull,           \* NewImage's remote pull: the channel, the two goroutines, the callbacks
    picker,         \* the file picker: its Model and the load commands in flight
    ui              \* the UI: its Model's mode and layers, the commands and messages around it

fsVars == <<archive, layerFS, streamPos>>
callVars == <<handle, listed, pageOne, ret>>
readVars == <<gor, mu>>
cacheVars == <<cacheDir, cacheDirOnce, layerCache>>
diskVars == <<files, dirExists, inodes>>
envVars == <<diffID, blob, damage>>
layerVars == <<cacheVars, diskVars, envVars, lay, faults>>

appVars == <<pull, picker, ui>>
mainVars == <<mainPC, sigPC, uiResult, cleanupCalls, appVars>>
runVars == <<mainPC, sigPC, uiResult, cleanupCalls>>

vars == <<fsVars, callVars, readVars, layerVars, mainVars>>

\* The program around the materializer at rest (run() is not modelled in
\* SpecFS, SpecRead and SpecLayer).
\* No pull is running.
AppUnused == pull = <<>> /\ picker = <<>> /\ ui = <<>>

MainUnused == mainPC = "" /\ sigPC = "" /\ uiResult = "" /\ cleanupCalls = 0 /\ AppUnused

\* The archive file is whole: not cut, no malformed header.
Undamaged == [cut |-> 0 - 1, bad |-> 0]

\* The layer cache and the materializer at rest (SpecFS and SpecRead).
LayerUnused ==
    /\ cacheDir = "" /\ cacheDirOnce = FALSE /\ layerCache = <<>>
    /\ files = <<>> /\ dirExists = FALSE /\ inodes = <<>>
    /\ lay = <<>> /\ diffID = <<>> /\ blob = <<>> /\ damage = Undamaged
    /\ faults = 0

\* --------------------------------------------------------- SpecFS: actions
Ret(op, name, n, err, data, list) ==
    [op |-> op, name |-> name, n |-> n, err |-> err, data |-> data, list |-> list]

NoRet == Ret("", <<"">>, 0, "", <<>>, <<>>)

Stream == TarStream(archive, 1)

\* The paths a caller asks for: every key of the index, every member name and
\* link name as the archive spells it, the empty path and an absent one.
AskedNames ==
    DOMAIN layerFS.tfs.fileMap
      \cup {archive[k].name : k \in 1..Len(archive)}
      \cup {archive[k].linkname : k \in 1..Len(archive)}
      \cup {<<"">>, <<"x">>}

InitFS ==
    /\ archive \in Archives
    /\ layerFS = [ready |-> FALSE, tfs |-> NilFS]
    /\ streamPos = 0
    /\ handle = [open |-> FALSE, name |-> <<"">>, file |-> NilFile]
    /\ listed = <<>>
    /\ pageOne = TRUE
    /\ ret = NoRet
    /\ gor = <<>>
    /\ mu = <<>>
    /\ LayerUnused
    /\ MainUnused

\* Layer.createNewLayer's last steps on a copied archive: the file is at its
\* start, tarfs.New indexes it and the layer keeps the filesystem.
FSInitializeLayer ==
    /\ ~layerFS.ready
    /\ layerFS' = [ready |-> TRUE, tfs |-> New(archive)]
    /\ streamPos' = New(archive).endPos
    /\ ret' = Ret("InitializeLayer", <<"">>, 0, "", <<>>, <<>>)
    /\ UNCHANGED <<archive, handle, listed, pageOne, readVars, layerVars, mainVars>>

\* FS.Open(name); the caller keeps the handle when there is one.
FSOpen(name) ==
    /\ layerFS.ready
    /\ ~handle.open
    /\ LET o == Open(layerFS.tfs, name)
       IN  /\ handle' = [open |-> o.err = "", name |-> name, file |-> o.file]
           /\ ret' = Ret("Open", name, 0, o.err, <<>>, <<>>)
    /\ listed' = <<>>
    /\ pageOne' = TRUE
    /\ UNCHANGED <<archive, layerFS, streamPos, readVars, layerVars, mainVars>>

\* File.Close: nothing is closed; the caller drops the handle.
FSClose ==
    /\ handle.open
    /\ handle' = [open |-> FALSE, name |-> <<"">>, file |-> NilFile]
    /\ listed' = <<>>
    /\ pageOne' = TRUE
    /\ ret' = Ret("Close", <<"">>, 0, "", <<>>, <<>>)
    /\ UNCHANGED <<archive, layerFS, streamPos, readVars, layerVars, mainVars>>

\* File.ReadDir(n).
FSReadDir(n) ==
    /\ handle.open
    /\ LET r == ReadDir(handle.file, n)
       IN  /\ handle' = [handle EXCEPT !.file = r.file]
           /\ listed' = listed \o r.entries
           /\ ret' = Ret("ReadDir", handle.file.Header.name, n, r.err, <<>>, r.entries)
    /\ pageOne' = (pageOne /\ n = 1)
    /\ UNCHANGED <<archive, layerFS, streamPos, readVars, layerVars, mainVars>>

\* Layer.ReadFile(path).
FSReadFile(path) ==
    /\ ~handle.open
    /\ LET r == LayerReadFile(layerFS.ready, layerFS.tfs, Stream, streamPos, path)
       IN  /\ streamPos' = r.pos
           /\ ret' = Ret("ReadFile", path, 0, r.err, r.data, <<>>)
    /\ UNCHANGED <<archive, layerFS, handle, listed, pageOne, readVars, layerVars, mainVars>>

\* Layer.GetFiles(path).
FSGetFiles(path) ==
    /\ ~handle.open
    /\ LET r == LayerGetFiles(layerFS.ready, layerFS.tfs, path)
       IN  ret' = Ret("GetFiles", path, 0, r.err, <<>>, r.files)
    /\ UNCHANGED <<archive, layerFS, streamPos, handle, listed, pageOne, readVars, layerVars, mainVars>>

NextFS ==
    \/ FSInitializeLayer
    \/ \E name \in AskedNames : FSOpen(name)
    \/ FSClose
    \/ \E n \in (0 - 1)..MaxPage : FSReadDir(n)
    \/ \E path \in AskedNames : FSReadFile(path)
    \/ \E path \in AskedNames : FSGetFiles(path)

SpecFS == InitFS /\ [][NextFS]_vars

\* ------------------------------------------------------ SpecNames: actions
\* The calls of SpecFS on archives whose members are named the way tar spells
\* the root and the paths below it: "." and "./" themselves, "./f" beside "f",
\* and hard links that give their target as "f" and as "./f".
NamesPool ==
    { Member(<<".">>, "reg", NoLink, <<18>>),
      Member(<<".", "">>, "dir", NoLink, <<>>),
      Member(<<".", "f">>, "reg", NoLink, <<17>>),
      Member(<<"f">>, "reg", NoLink, <<15, 16>>),
      Member(<<"h">>, "link", <<"f">>, <<>>),
      Member(<<"k">>, "link", <<".", "f">>, <<>>) }

InitNames ==
    /\ archive \in SeqsUpTo(NamesPool, MaxMembers)
    /\ layerFS = [ready |-> FALSE, tfs |-> NilFS]
    /\ streamPos = 0
    /\ handle = [open |-> FALSE, name |-> <<"">>, file |-> NilFile]
    /\ listed = <<>>
    /\ pageOne = TRUE
    /\ ret = NoRet
    /\ gor = <<>>
    /\ mu = <<>>
    /\ LayerUnused
    /\ MainUnused

SpecNames == InitNames /\ [][NextFS]_vars

\* ---------------------------------------------------------- SpecFS: claims
Members == 1..Len(archive)

\* The path member k is indexed under.
PathOf(k) == Clean(archive[k].name)

\* Member k is the last member of the archive with its path.
LastWithPath(k) == \A j \in (k + 1)..Len(archive) : PathOf(j) # PathOf(k)

RECURSIVE DistinctPaths(_)
DistinctPaths(k) ==
    IF k = 0 THEN <<>>
    ELSE LET before == DistinctPaths(k - 1)
         IN  IF \E i \in 1..Len(before) : before[i] = PathOf(k)
             THEN before ELSE Append(before, PathOf(k))

Select(seq, Keep(_)) ==
    LET F[i \in 0..Len(seq)] ==
            IF i = 0 THEN <<>>
            ELSE IF Keep(seq[i]) THEN Append(F[i - 1], seq[i]) ELSE F[i - 1]
    IN  F[Len(seq)]

\* The direct children of directory d: the member paths whose parent is d.
DirectChildren(d) ==
    LET IsChild(p) == Dir(p) = d /\ p # d
    IN  Select(DistinctPaths(Len(archive)), IsChild)

\* C5: GetFiles of a directory of the index returns exactly the directory's
\* direct children, in the order the members were encountered, none twice and
\* none deeper.
C5_GetFilesDirectChildren ==
    (/\ ret.op = "GetFiles" /\ layerFS.ready
     /\ ret.name \in DOMAIN layerFS.tfs.fileMap
     /\ IsDir(layerFS.tfs.entries[layerFS.tfs.fileMap[ret.name]].Header)) =>
        /\ ret.err = ""
        /\ [i \in 1..Len(ret.list) |-> ret.list[i].Path] = DirectChildren(ret.name)

\* What reading a handle to its end gives: its bytes and its listing.
ContentOf(f) ==
    [data |-> ReadAll(Stream, streamPos, f).data, list |-> ReadDir(f, 0 - 1).entries]

\* C6: a hard link whose target name is a key of the index opens, and whenever
\* the target's path opens too, the two handles hold the same content (the same
\* bytes and the same listing).
C6_HardLinkSameContent ==
    layerFS.ready =>
        \A p \in DOMAIN layerFS.tfs.fileMap :
            LET h == layerFS.tfs.entries[layerFS.tfs.fileMap[p]].Header
            IN  (h.typeflag = "link" /\ h.linkname \in DOMAIN layerFS.tfs.fileMap) =>
                    LET link == Open(layerFS.tfs, p)
                        target == Open(layerFS.tfs, h.linkname)
                    IN  /\ link.err = ""
                        /\ target.err = "" => ContentOf(link.file) = ContentOf(target.file)

\* C7: when ReadDir(1), called on a directory handle until it reports the end
\* of the listing, has enumerated the handle, the entries it returned are, in
\* order, those one ReadDir(n) with n <= 0 returns on a fresh handle of the
\* same directory.
C7_PagedListingSameAsWhole ==
    (/\ handle.open /\ IsDir(handle.file.Header) /\ pageOne
     /\ ret.op = "ReadDir" /\ ret.err = "EOF") =>
        \A n \in {0 - 1, 0} :
            LET fresh == Open(layerFS.tfs, handle.name).file
                whole == ReadDir(fresh, n)
            IN  whole.err = "" /\ listed = whole.entries

\* C7's case: ReadDir(1) has enumerated a directory of two or more children.
C7_Witness ==
    /\ handle.open /\ IsDir(handle.file.Header) /\ pageOne
    /\ ret.op = "ReadDir" /\ ret.err = "EOF"
    /\ Len(listed) >= 2
    /\ listed = ReadDir(Open(layerFS.tfs, handle.name).file, 0 - 1).entries

\* ------------------------------------------------------- SpecRead: actions
\* Goroutines that each open one file of one ready filesystem and read it to
\* the end: io.ReadAll -> File.Read -> SectionReader.Read -> readerAtWrapper.ReadAt,
\* whose steps interleave (each Seek and Read on the *os.File is one system
\* call).
Readers == 1..NumReaders

ReadArchive ==
    << Member(<<"a">>, "dir", NoLink, <<>>),
       Member(<<"a", "f">>, "reg", NoLink, <<12, 13, 14>>),
       Member(<<"f">>, "reg", NoLink, <<15, 16>>) >>

ReadPaths == {<<"a", "f">>, <<"f">>}

\* The readerAtWrapper a handle reads through: FS.Open makes a new one for
\* every handle it returns, so it is named by the goroutine that opened it.
WrapperOf(g) == g

Gor(pc, file, current, data, err) ==
    [pc |-> pc, file |-> file, current |-> current, data |-> data, err |-> err]

InitRead ==
    /\ archive = ReadArchive
    /\ layerFS = [ready |-> TRUE, tfs |-> New(ReadArchive)]
    /\ streamPos = New(ReadArchive).endPos
    /\ handle = [open |-> FALSE, name |-> <<"">>, file |-> NilFile]
    /\ listed = <<>>
    /\ pageOne = TRUE
    /\ ret = NoRet
    /\ gor = [g \in Readers |-> Gor("idle", NilFile, 0, <<>>, "")]
    /\ mu = [w \in {WrapperOf(g) : g \in Readers} |-> 0]
    /\ LayerUnused
    /\ MainUnused

\* FS.Open(path) by goroutine g, which then calls Read for the whole window.
ROpen(g, path) ==
    /\ gor[g].pc = "idle"
    /\ LET o == Open(layerFS.tfs, path)
       IN  /\ o.err = ""
           /\ gor' = [gor EXCEPT ![g] = Gor("lock", o.file, 0, <<>>, "")]
    /\ UNCHANGED <<fsVars, callVars, mu, layerVars, mainVars>>

\* ReadAt: w.mu.Lock().
RLock(g) ==
    /\ gor[g].pc = "lock"
    /\ mu[WrapperOf(g)] = 0
    /\ mu' = [mu EXCEPT ![WrapperOf(g)] = g]
    /\ gor' = [gor EXCEPT ![g].pc = "save"]
    /\ UNCHANGED <<fsVars, callVars, layerVars, mainVars>>

\* ReadAt: current, err := w.r.Seek(0, io.SeekCurrent).
RSave(g) ==
    /\ gor[g].pc = "save"
    /\ gor' = [gor EXCEPT ![g].pc = "seek", ![g].current = streamPos]
    /\ UNCHANGED <<fsVars, callVars, mu, layerVars, mainVars>>

\* ReadAt: w.r.Seek(off, io.SeekStart).
RSeek(g) ==
    /\ gor[g].pc = "seek"
    /\ streamPos' = gor[g].file.off
    /\ gor' = [gor EXCEPT ![g].pc = "read"]
    /\ UNCHANGED <<archive, layerFS, callVars, mu, layerVars, mainVars>>

\* ReadAt: n, err = io.ReadFull(w.r, p), p as long as the window.
RRead(g) ==
    /\ gor[g].pc = "read"
    /\ LET r == ReadFull(Stream, streamPos, gor[g].file.limit - gor[g].file.off)
       IN  /\ streamPos' = r.pos
           /\ gor' = [gor EXCEPT ![g].pc = "restore", ![g].data = r.data, ![g].err = r.err]
    /\ UNCHANGED <<archive, layerFS, callVars, mu, layerVars, mainVars>>

\* ReadAt: w.r.Seek(current, io.SeekStart).
RRestore(g) ==
    /\ gor[g].pc = "restore"
    /\ streamPos' = gor[g].current
    /\ gor' = [gor EXCEPT ![g].pc = "unlock"]
    /\ UNCHANGED <<archive, layerFS, callVars, mu, layerVars, mainVars>>

\* ReadAt: the deferred w.mu.Unlock(), and the return.
RUnlock(g) ==
    /\ gor[g].pc = "unlock"
    /\ mu' = [mu EXCEPT ![WrapperOf(g)] = 0]
    /\ gor' = [gor EXCEPT ![g].pc = "done"]
    /\ UNCHANGED <<fsVars, callVars, layerVars, mainVars>>

NextRead ==
    \/ \E g \in Readers, path \in ReadPaths : ROpen(g, path)
    \/ \E g \in Readers : RLock(g)
    \/ \E g \in Readers : RSave(g)
    \/ \E g \in Readers : RSeek(g)
    \/ \E g \in Readers : RRead(g)
    \/ \E g \in Readers : RRestore(g)
    \/ \E g \in Readers : RUnlock(g)

SpecRead == InitRead /\ [][NextRead]_vars

\* -------------------------------------------------------- SpecRead: claims
\* The bytes of the window a handle was opened on.
WindowOf(f) == SubSeq(Stream, f.base + 1, f.limit)

\* C1: whatever the interleaving of reads through two or more handles of one
\* filesystem, a finished ReadAt has returned exactly the bytes of its own
\* entry's window of the shared stream, without an error.
C1_ReadReturnsOwnWindow ==
    \A g \in Readers :
        gor[g].pc \in {"restore", "unlock", "done"} =>
            gor[g].err = "" /\ gor[g].data = WindowOf(gor[g].file)

\* C21: a handle only ever returns bytes of its own window: the i-th byte a
\* Read of the handle has returned is the i-th byte of the stream after the
\* position the handle was at, never more bytes than the window has left, and
\* a Read that returns fewer has reached the end of the window.
C21_ReadsStayInWindow ==
    \A g \in Readers :
        gor[g].pc \in {"restore", "unlock", "done"} =>
            LET f == gor[g].file
            IN  /\ Len(gor[g].data) <= f.limit - f.off
                /\ \A i \in 1..Len(gor[g].data) : gor[g].data[i] = Stream[f.off + i]
                /\ gor[g].err # "" => f.off + Len(gor[g].data) >= f.limit

\* C31: every ReadAt leaves the stream where it found it, so whenever no
\* ReadAt is running (each goroutine is before Lock or after Unlock) the
\* stream is at the position tarfs.New left it at.
C31_ReadAtRestoresPosition ==
    (\A g \in Readers : gor[g].pc \in {"idle", "lock", "done"}) =>
        streamPos = New(ReadArchive).endPos

\* ------------------------------------------------ SpecLayer: cache and disk
\* The two Layer objects of SpecLayer.
Layers == {1, 2}
DiffIDs == {"d1", "d2"}

\* A path on disk: the file "layer-<n>.tar" in directory dir (the scratch
\* directory "tmp", or "" for the working directory); Go's "" is NoPath.
Path(dir, n) == [dir |-> dir, n |-> n]
NoPath == Path("", 0 - 1)

\* Progress values, as fractions <<numerator, denominator>>.
P00 == <<0, 10>>
P02 == <<2, 10>>
P05 == <<5, 10>>
P08 == <<8, 10>>
P10 == <<10, 10>>

\* Ratio_Unclamped: Ratio without the progress > 1.0 test.
Ratio_Unclamped(current, total) == <<current, total>>

\* progressReader.Read: float64(pr.current) / float64(pr.total), at most 1.0.
Ratio(current, total) == IF current >= total THEN P10 ELSE <<current, total>>

\* getCachedLayer.
GetCachedLayer(d) == layerCache[d]

\* len(layerCache).
CacheLen == Cardinality({d \in DiffIDs : layerCache[d] # NoPath})

\* getCacheFilePath once initCacheDir has returned nil.
GetCacheFilePath(dir) == Path(dir, CacheLen)

\* The directory of a path exists (the working directory always does).
DirOnDisk(p) == p.dir = "" \/ dirExists

\* tarfs.New on a file's content, one cell per member: members are indexed up
\* to the end of the content or to a zero block (a hole left by a write past
\* the end), and a member of a malformed blob is a header tar.Reader.Next
\* refuses.
RECURSIVE IndexScan(_, _, _)
IndexScan(content, i, acc) ==
    IF i > Len(content) \/ content[i] = "hole" THEN [err |-> FALSE, members |-> acc]
    ELSE IF content[i] \in blob.bad THEN [err |-> TRUE, members |-> <<>>]
    ELSE IndexScan(content, i + 1, Append(acc, content[i]))

TarfsNew(content) == IndexScan(content, 1, <<>>)

\* file.Write of a member of blob d at offset off of a file's content.
RECURSIVE Holes(_)
Holes(n) == IF n <= 0 THEN <<>> ELSE Append(Holes(n - 1), "hole")

WriteAt(content, off, d) ==
    IF off < Len(content) THEN [content EXCEPT ![off + 1] = d]
    ELSE content \o Holes(off - Len(content)) \o <<d>>

\* Layer.fs: nil, or the filesystem indexed from an open file.
\* from tells which of initializeFromCache and createNewLayer assigned it.
LayerFS(ino, members, from) ==
    [ready |-> TRUE, ino |-> ino, members |-> members, from |-> from]
NilLayerFS == [ready |-> FALSE, ino |-> 0, members |-> <<>>, from |-> ""]

\* A Layer and the locals of its InitializeLayer call: pc is where the call
\* stands ("idle": no call is running), reported the values handed to the
\* progress callback by the current (or last) call, result what the last call
\* returned. Of the call, unc counts its layer.Uncompressed calls, served
\* tells that initializeFromCache returned true, wrote that cacheLayer was
\* called.
NewLayer ==
    [pc |-> "idle", fs |-> NilLayerFS, reported |-> <<>>, result |-> "",
     cachedPath |-> NoPath, tmpFile |-> NoPath, fd |-> 0, current |-> 0,
     tfs |-> <<>>, unc |-> 0, served |-> FALSE, wrote |-> FALSE]

\* The blob source: the declared size (none, one cell, the largest), the
\* members its stream delivers, and the DiffIDs whose blob is malformed.
Blobs == [total : {0, 1, MaxSize}, len : 0..MaxSize, bad : SUBSET {"d2"}]

InitLayer ==
    /\ archive = <<>>
    /\ layerFS = [ready |-> FALSE, tfs |-> NilFS]
    /\ streamPos = 0
    /\ handle = [open |-> FALSE, name |-> <<"">>, file |-> NilFile]
    /\ listed = <<>>
    /\ pageOne = TRUE
    /\ ret = NoRet
    /\ gor = <<>>
    /\ mu = <<>>
    /\ cacheDir = ""
    /\ cacheDirOnce = FALSE
    /\ layerCache = [d \in DiffIDs |-> NoPath]
    /\ files = <<>>
    /\ dirExists = FALSE
    /\ inodes = <<>>
    /\ lay = [l \in Layers |-> NewLayer]
    /\ diffID \in {f \in [Layers -> DiffIDs] : f[1] = "d1"}
    /\ blob \in {b \in Blobs : \A d \in b.bad : \E l \in Layers : diffID[l] = d}
    /\ faults = 0
    /\ damage = Undamaged
    /\ MainUnused

otherThanLayer == <<fsVars, callVars, readVars, envVars, mainVars>>

\* The environment makes one more IO call fail.
Fault == faults < MaxFaults /\ faults' = faults + 1

\* The call of layer l returns: its locals are gone.
Return(l, result) ==
    [lay EXCEPT ![l].pc = "idle", ![l].result = result,
                ![l].cachedPath = NoPath, ![l].tmpFile = NoPath, ![l].fd = 0,
                ![l].current = 0, ![l].tfs = <<>>]

\* createNewLayer returns an error wrapped with its stage: the deferred
\* file.Close runs, since l.fs is nil.
Failed(l, stage) == Return(l, stage)

\* progress(v) in the call of layer l.
Reported(l, v) == Append(lay[l].reported, v)

\* -------------------------------------------------- SpecLayer: the actions
\* The call of layer l starts: progress(0.0), then initializeFromCache's
\* cachedPath := getCachedLayer(l.DiffID), where "" is a miss.
Started(l) ==
    LET cachedPath == GetCachedLayer(diffID[l])
    IN  [lay EXCEPT ![l].pc = IF cachedPath = NoPath THEN "path" ELSE "open",
                    ![l].cachedPath = cachedPath,
                    ![l].reported = <<P00>>, ![l].result = "",
                    ![l].unc = 0, ![l].served = FALSE, ![l].wrote = FALSE]

\* InitializeLayer_NoReadyCheck: InitializeLayer without its l.fs != nil test.
InitializeLayer_NoReadyCheck(l) ==
    /\ lay[l].pc = "idle"
    /\ lay' = Started(l)
    /\ UNCHANGED <<otherThanLayer, cacheVars, diskVars, faults>>

\* Layer.InitializeLayer, up to the cache lookup: a layer that has its
\* filesystem reports 1.0 and returns nil; otherwise 0.0 is reported and
\* initializeFromCache looks the DiffID up.
InitializeLayer(l) ==
    /\ lay[l].pc = "idle"
    /\ lay' = IF lay[l].fs.ready
              THEN [lay EXCEPT ![l].reported = <<P10>>, ![l].result = "ok",
                               ![l].unc = 0, ![l].served = FALSE, ![l].wrote = FALSE]
              ELSE Started(l)
    /\ UNCHANGED <<otherThanLayer, cacheVars, diskVars, faults>>

\* CacheOpen_ReturnError: CacheOpen with the os.Open error returned by
\* InitializeLayer.
CacheOpen_ReturnError(l) ==
    /\ lay[l].pc = "open"
    /\ lay' = IF lay[l].cachedPath \in DOMAIN files
              THEN [lay EXCEPT ![l].pc = "cacheIndex", ![l].fd = files[lay[l].cachedPath],
                               ![l].reported = Reported(l, P05)]
              ELSE Failed(l, "failed to open cached file")
    /\ UNCHANGED <<otherThanLayer, cacheVars, diskVars, faults>>

\* CacheOpen_NoProgress: CacheOpen without progress(0.5).
CacheOpen_NoProgress(l) ==
    /\ lay[l].pc = "open"
    /\ lay' = [lay EXCEPT ![l] =
                 IF lay[l].cachedPath \in DOMAIN files
                 THEN [@ EXCEPT !.pc = "cacheIndex", !.fd = files[lay[l].cachedPath]]
                 ELSE [@ EXCEPT !.pc = "path", !.cachedPath = NoPath]]
    /\ UNCHANGED <<otherThanLayer, cacheVars, diskVars, faults>>

\* initializeFromCache: os.Open(cachedPath), then progress(0.5); a file that
\* is no longer there is a cache miss.
CacheOpen(l) ==
    /\ lay[l].pc = "open"
    /\ lay' = [lay EXCEPT ![l] =
                 IF lay[l].cachedPath \in DOMAIN files
                 THEN [@ EXCEPT !.pc = "cacheIndex", !.fd = files[lay[l].cachedPath],
                                !.reported = Reported(l, P05)]
                 ELSE [@ EXCEPT !.pc = "path", !.cachedPath = NoPath]]
    /\ UNCHANGED <<otherThanLayer, cacheVars, diskVars, faults>>

\* initializeFromCache: os.Open fails for another reason.
CacheOpenFault(l) ==
    /\ lay[l].pc = "open"
    /\ Fault
    /\ lay' = [lay EXCEPT ![l].pc = "path", ![l].cachedPath = NoPath]
    /\ UNCHANGED <<otherThanLayer, cacheVars, diskVars>>

\* CacheIndex_FallThrough: CacheIndex with InitializeLayer ignoring the ok of
\* initializeFromCache.
CacheIndex_FallThrough(l) ==
    /\ lay[l].pc = "cacheIndex"
    /\ LET r == TarfsNew(inodes[lay[l].fd])
       IN  lay' = [lay EXCEPT ![l] =
                     IF r.err
                     THEN [@ EXCEPT !.pc = "path", !.fd = 0, !.cachedPath = NoPath]
                     ELSE [@ EXCEPT !.pc = "path", !.fd = 0, !.cachedPath = NoPath,
                                    !.served = TRUE,
                                    !.reported = Reported(l, P10)]]
    /\ UNCHANGED <<otherThanLayer, cacheVars, diskVars, faults>>

\* initializeFromCache: tarfs.New(file); on success l.fs = tfs, progress(1.0)
\* and InitializeLayer returns nil, on an error the file is closed and the call
\* goes on as on a cache miss.
CacheIndex(l) ==
    /\ lay[l].pc = "cacheIndex"
    /\ LET r == TarfsNew(inodes[lay[l].fd])
       IN  lay' = IF r.err
                  THEN [lay EXCEPT ![l].pc = "path", ![l].fd = 0, ![l].cachedPath = NoPath]
                  ELSE [Return(l, "ok") EXCEPT
                            ![l].fs = LayerFS(lay[l].fd, r.members, "cache"),
                            ![l].served = TRUE,
                            ![l].reported = Reported(l, P10)]
    /\ UNCHANGED <<otherThanLayer, cacheVars, diskVars, faults>>

\* initializeFromCache: tarfs.New fails on a read error.
CacheIndexFault(l) ==
    /\ lay[l].pc = "cacheIndex"
    /\ Fault
    /\ lay' = [lay EXCEPT ![l].pc = "path", ![l].fd = 0, ![l].cachedPath = NoPath]
    /\ UNCHANGED <<otherThanLayer, cacheVars, diskVars>>

\* GetPath_Recreate: GetPath with initCacheDir making the directory anew
\* whenever it is not there.
GetPath_Recreate(l) ==
    /\ lay[l].pc = "path"
    /\ cacheDir' = "tmp"
    /\ dirExists' = TRUE
    /\ cacheDirOnce' = TRUE
    /\ lay' = [lay EXCEPT ![l].pc = "create", ![l].tmpFile = GetCacheFilePath(cacheDir')]
    /\ UNCHANGED <<otherThanLayer, layerCache, files, inodes, faults>>

\* createNewLayer: getCacheFilePath. The first call runs cacheDirOnce, which
\* makes the scratch directory; every call joins cacheDir and the file name.
GetPath(l) ==
    /\ lay[l].pc = "path"
    /\ cacheDir' = IF cacheDirOnce THEN cacheDir ELSE "tmp"
    /\ dirExists' = IF cacheDirOnce THEN dirExists ELSE TRUE
    /\ cacheDirOnce' = TRUE
    /\ lay' = [lay EXCEPT ![l].pc = "create", ![l].tmpFile = GetCacheFilePath(cacheDir')]
    /\ UNCHANGED <<otherThanLayer, layerCache, files, inodes, faults>>

\* createNewLayer: getCacheFilePath when os.MkdirTemp fails inside
\* cacheDirOnce: cacheDir stays "" and the error is returned.
GetPathMkdirFault(l) ==
    /\ lay[l].pc = "path"
    /\ ~cacheDirOnce
    /\ Fault
    /\ cacheDirOnce' = TRUE
    /\ lay' = Failed(l, "failed to get cache file path")
    /\ UNCHANGED <<otherThanLayer, cacheDir, layerCache, diskVars>>

\* createNewLayer: os.Create(tmpFile), then progress(0.2). A file that exists
\* is truncated; creating fails when the directory is gone.
Create(l) ==
    /\ lay[l].pc = "create"
    /\ LET p == lay[l].tmpFile
       IN  IF ~DirOnDisk(p)
           THEN /\ lay' = Failed(l, "failed to create cache file")
                /\ UNCHANGED <<files, inodes>>
           ELSE IF p \in DOMAIN files
           THEN /\ inodes' = [inodes EXCEPT ![files[p]] = <<>>]
                /\ lay' = [lay EXCEPT ![l].pc = "uncompressed", ![l].fd = files[p],
                                      ![l].reported = Reported(l, P02)]
                /\ UNCHANGED files
           ELSE /\ inodes' = Append(inodes, <<>>)
                /\ files' = [q \in DOMAIN files \cup {p} |->
                               IF q = p THEN Len(inodes) + 1 ELSE files[q]]
                /\ lay' = [lay EXCEPT ![l].pc = "uncompressed", ![l].fd = Len(inodes) + 1,
                                      ![l].reported = Reported(l, P02)]
    /\ UNCHANGED <<otherThanLayer, cacheVars, dirExists, faults>>

\* createNewLayer: os.Create fails for another reason.
CreateFault(l) ==
    /\ lay[l].pc = "create"
    /\ Fault
    /\ lay' = Failed(l, "failed to create cache file")
    /\ UNCHANGED <<otherThanLayer, cacheVars, diskVars>>

\* createNewLayer: l.layer.Uncompressed() and l.layer.Size(); the
\* progressReader starts at current = 0.
Uncompressed(l) ==
    /\ lay[l].pc = "uncompressed"
    /\ lay' = [lay EXCEPT ![l].pc = "copy", ![l].current = 0, ![l].unc = @ + 1]
    /\ UNCHANGED <<otherThanLayer, cacheVars, diskVars, faults>>

\* createNewLayer: l.layer.Uncompressed() returns an error.
UncompressedFault(l) ==
    /\ lay[l].pc = "uncompressed"
    /\ Fault
    /\ lay' = [Failed(l, "failed to get layer content") EXCEPT ![l].unc = @ + 1]
    /\ UNCHANGED <<otherThanLayer, cacheVars, diskVars>>

\* createNewLayer: l.layer.Size() returns an error; the stream is closed.
SizeFault(l) ==
    /\ lay[l].pc = "uncompressed"
    /\ Fault
    /\ lay' = [Failed(l, "failed to get layer size") EXCEPT ![l].unc = @ + 1]
    /\ UNCHANGED <<otherThanLayer, cacheVars, diskVars>>

\* io.Copy: one progressReader.Read that returns a member, written to the
\* file; elapsed tells whether 50ms have passed since the last update, and
\* only then (and when total > 0) is the ratio reported.
CopyRead(l, elapsed) ==
    /\ lay[l].pc = "copy"
    /\ lay[l].current < blob.len
    /\ inodes' = [inodes EXCEPT ![lay[l].fd] = WriteAt(@, lay[l].current, diffID[l])]
    /\ lay' = [lay EXCEPT ![l].current = @ + 1,
                          ![l].reported =
                              IF blob.total > 0 /\ elapsed
                              THEN Reported(l, Ratio(lay[l].current + 1, blob.total))
                              ELSE @]
    /\ UNCHANGED <<otherThanLayer, cacheVars, files, dirExists, faults>>

\* CopyEOF_NoFinal: CopyEOF without the final progress(1.0) of the reader.
CopyEOF_NoFinal(l) ==
    /\ lay[l].pc = "copy"
    /\ lay[l].current = blob.len
    /\ lay' = [lay EXCEPT ![l].pc = "seek", ![l].reported = Reported(l, P08)]
    /\ UNCHANGED <<otherThanLayer, cacheVars, diskVars, faults>>

\* io.Copy: the Read that returns io.EOF reports 1.0 when current > 0 and
\* total > 0; io.Copy returns nil and createNewLayer reports 0.8.
CopyEOF(l) ==
    /\ lay[l].pc = "copy"
    /\ lay[l].current = blob.len
    /\ lay' = [lay EXCEPT ![l].pc = "seek",
                          ![l].reported =
                              IF lay[l].current > 0 /\ blob.total > 0
                              THEN Reported(l, P10) \o <<P08>>
                              ELSE Reported(l, P08)]
    /\ UNCHANGED <<otherThanLayer, cacheVars, diskVars, faults>>

\* io.Copy: a Read or a Write fails.
CopyFault(l) ==
    /\ lay[l].pc = "copy"
    /\ Fault
    /\ lay' = Failed(l, "failed to copy layer content")
    /\ UNCHANGED <<otherThanLayer, cacheVars, diskVars>>

\* createNewLayer: file.Seek(0, 0).
SeekStart(l) ==
    /\ lay[l].pc = "seek"
    /\ lay' = [lay EXCEPT ![l].pc = "index"]
    /\ UNCHANGED <<otherThanLayer, cacheVars, diskVars, faults>>

\* createNewLayer: file.Seek fails.
SeekFault(l) ==
    /\ lay[l].pc = "seek"
    /\ Fault
    /\ lay' = Failed(l, "failed to seek cache file")
    /\ UNCHANGED <<otherThanLayer, cacheVars, diskVars>>

\* Index_CacheFirst: Index with cacheLayer called before tarfs.New.
Index_CacheFirst(l) ==
    /\ lay[l].pc = "index"
    /\ layerCache' = [layerCache EXCEPT ![diffID[l]] = lay[l].tmpFile]
    /\ LET r == TarfsNew(inodes[lay[l].fd])
       IN  lay' = IF r.err THEN Failed(l, "failed to create tarfs")
                  ELSE [lay EXCEPT ![l].pc = "register", ![l].tfs = r.members]
    /\ UNCHANGED <<otherThanLayer, cacheDir, cacheDirOnce, diskVars, faults>>

\* createNewLayer: tarfs.New(file); its error is returned.
Index(l) ==
    /\ lay[l].pc = "index"
    /\ LET r == TarfsNew(inodes[lay[l].fd])
       IN  lay' = IF r.err THEN Failed(l, "failed to create tarfs")
                  ELSE [lay EXCEPT ![l].pc = "register", ![l].tfs = r.members]
    /\ UNCHANGED <<otherThanLayer, cacheVars, diskVars, faults>>

\* createNewLayer: tarfs.New fails on a read error.
IndexFault(l) ==
    /\ lay[l].pc = "index"
    /\ Fault
    /\ lay' = Failed(l, "failed to create tarfs")
    /\ UNCHANGED <<otherThanLayer, cacheVars, diskVars>>

\* createNewLayer: cacheLayer(l.DiffID, tmpFile), l.fs = tfs, progress(1.0),
\* return nil.
Register(l) ==
    /\ lay[l].pc = "register"
    /\ layerCache' = [layerCache EXCEPT ![diffID[l]] = lay[l].tmpFile]
    /\ lay' = [Return(l, "ok") EXCEPT
                   ![l].fs = LayerFS(lay[l].fd, lay[l].tfs, "extract"),
                   ![l].wrote = TRUE,
                   ![l].reported = Reported(l, P10)]
    /\ UNCHANGED <<otherThanLayer, cacheDir, cacheDirOnce, diskVars, faults>>

\* What CleanupCache leaves: nothing changes when cacheDir is ""; otherwise
\* every file of layerCache is removed, the map is replaced by an empty one
\* and the scratch directory is removed with all it holds.
Cleanup(dir, cache, disk, exists) ==
    IF dir = ""
    THEN [layerCache |-> cache, files |-> disk, dirExists |-> exists]
    ELSE [layerCache |-> [d \in DiffIDs |-> NoPath],
          files |-> [p \in {q \in DOMAIN disk :
                              /\ q.dir # dir
                              /\ \A d \in DiffIDs : cache[d] # q} |-> disk[p]],
          dirExists |-> FALSE]

\* CleanupCache as a callee; cacheDir keeps its value, and it returns nil.
CleanupEffect ==
    /\ LET after == Cleanup(cacheDir, layerCache, files, dirExists)
       IN  /\ layerCache' = after.layerCache
           /\ files' = after.files
           /\ dirExists' = after.dirExists
    /\ UNCHANGED <<fsVars, callVars, readVars, envVars>>
    /\ UNCHANGED <<cacheDir, cacheDirOnce, inodes, lay, faults>>

\* CleanupCache, called at any time.
CleanupCache == CleanupEffect /\ UNCHANGED mainVars

NextLayer ==
    \/ \E l \in Layers : InitializeLayer(l)
    \/ \E l \in Layers : CacheOpen(l)
    \/ \E l \in Layers : CacheOpenFault(l)
    \/ \E l \in Layers : CacheIndex(l)
    \/ \E l \in Layers : CacheIndexFault(l)
    \/ \E l \in Layers : GetPath(l)
    \/ \E l \in Layers : GetPathMkdirFault(l)
    \/ \E l \in Layers : Create(l)
    \/ \E l \in Layers : CreateFault(l)
    \/ \E l \in Layers : Uncompressed(l)
    \/ \E l \in Layers : UncompressedFault(l)
    \/ \E l \in Layers : SizeFault(l)
    \/ \E l \in Layers, elapsed \in BOOLEAN : CopyRead(l, elapsed)
    \/ \E l \in Layers : CopyEOF(l)
    \/ \E l \in Layers : CopyFault(l)
    \/ \E l \in Layers : SeekStart(l)
    \/ \E l \in Layers : SeekFault(l)
    \/ \E l \in Layers : Index(l)
    \/ \E l \in Layers : IndexFault(l)
    \/ \E l \in Layers : Register(l)
    \/ CleanupCache

SpecLayer == InitLayer /\ [][NextLayer]_vars

\* --------------------------------------------------- SpecLayer: the claims
\* p <= q for two progress values.
LessEq(p, q) == p[1] * q[2] <= q[1] * p[2]

Monotone(seq) == \A i \in 1..(Len(seq) - 1) : LessEq(seq[i], seq[i + 1])

\* The last InitializeLayer call of layer l has returned nil.
Succeeded(l) == lay[l].pc = "idle" /\ lay[l].result = "ok"

\* C2: across one InitializeLayer call every value handed to the progress
\* callback is at least the value handed before it, and once the call has
\* returned nil the last value handed is 1.0.
C2_ProgressMonotone ==
    \A l \in Layers :
        /\ Monotone(lay[l].reported)
        /\ Succeeded(l) => Last(lay[l].reported) = P10

C8_ReadyLayerIdempotent ==
    [][\A l \in Layers :
          (lay[l].pc = "idle" /\ lay[l].fs.ready /\ lay'[l] # lay[l]) =>
              /\ lay'[l].reported = <<P10>>
              /\ lay'[l].result = "ok"
              /\ lay'[l].pc = "idle"
              /\ lay'[l].fs = lay[l].fs
              /\ lay'[l].unc = 0
              /\ ~lay'[l].served
              /\ ~lay'[l].wrote
              /\ cacheVars' = cacheVars
              /\ diskVars' = diskVars]_vars

\* A layer with its filesystem whose last call reported 1.0 alone.
C8_Witness ==
    \E l \in Layers :
        /\ Succeeded(l)
        /\ lay[l].fs.ready
        /\ lay[l].reported = <<P10>>

\* What a CleanupCache called now would leave.
AfterCleanup == Cleanup(cacheDir, layerCache, files, dirExists)

\* C9: whenever CleanupCache is called, it leaves no file the run created, no
\* scratch directory and an empty cache mapping, and a second call right
\* after it changes nothing.
C9_CleanupRemovesEverything ==
    /\ DOMAIN AfterCleanup.files = {}
    /\ ~AfterCleanup.dirExists
    /\ \A d \in DiffIDs : AfterCleanup.layerCache[d] = NoPath
    /\ Cleanup(cacheDir, AfterCleanup.layerCache, AfterCleanup.files,
               AfterCleanup.dirExists) = AfterCleanup

\* C10: the step with which a call returns an error leaves the layer without
\* filesystem and idle (a later call starts over), and leaves layerCache as
\* it was, the call never having called cacheLayer; the os.Create of a call
\* leaves its file empty and its progressReader starts at 0.
C10_FailureLeavesLayerRetryable ==
    [][\A l \in Layers :
          /\ (lay[l].pc # "idle" /\ lay'[l].pc = "idle" /\ lay'[l].result # "ok") =>
                 /\ lay'[l].fs = NilLayerFS
                 /\ ~lay'[l].wrote
                 /\ layerCache' = layerCache
          /\ (lay[l].pc = "create" /\ lay'[l].pc = "uncompressed") =>
                 inodes'[lay'[l].fd] = <<>>
          /\ (lay[l].pc = "uncompressed" /\ lay'[l].pc = "copy") =>
                 lay'[l].current = 0]_vars

\* A layer that has its filesystem from createNewLayer after an IO failure,
\* no other layer ever having been initialized: the failure was an earlier
\* createNewLayer of this layer, and the later call extracted it.
C10_Witness ==
    \E l \in Layers :
        /\ Succeeded(l)
        /\ lay[l].fs.ready
        /\ lay[l].fs.from = "extract"
        /\ faults > 0
        /\ \A l2 \in Layers \ {l} : lay[l2] = NewLayer

\* C11: a step of initializeFromCache after it found a cache entry (os.Open
\* of the cached file, tarfs.New on it) never makes InitializeLayer return an
\* error: the file is opened, or the call is served from the cache, or the
\* call goes on to createNewLayer with the layer still without filesystem;
\* and the createNewLayer that reaches its end leaves the layer Ready.
C11_CacheFailureFallsThrough ==
    [][\A l \in Layers :
          /\ (lay[l].pc \in {"open", "cacheIndex"} /\ lay'[l] # lay[l]) =>
                 \/ lay[l].pc = "open" /\ lay'[l].pc = "cacheIndex"
                 \/ Succeeded(l)' /\ lay'[l].served /\ lay'[l].fs.ready
                 \/ /\ lay'[l].pc = "path"
                    /\ lay'[l].result = ""
                    /\ lay'[l].fs = NilLayerFS
          /\ (lay[l].pc = "register" /\ lay'[l] # lay[l]) =>
                 Succeeded(l)' /\ lay'[l].fs.ready]_vars

\* A layer Ready by extraction in a call that had opened the cached file
\* (progress 0.5) and could not index it.
C11_Witness ==
    \E l \in Layers :
        /\ Succeeded(l)
        /\ lay[l].fs.ready
        /\ lay[l].fs.from = "extract"
        /\ Len(lay[l].reported) >= 3
        /\ lay[l].reported[2] = P05
        /\ lay[l].reported[3] = P02

\* C12: on a ready filesystem, Open of a path that is not a key of the index
\* (the empty path, a member's name as the archive spells it when that is not
\* its cleaned form, an absent name) fails with the not-exist error carrying
\* the path asked for and gives no handle; the caller that made the call
\* holds none.
C12_OpenAbsentPath ==
    layerFS.ready =>
        /\ \A name \in AskedNames \ DOMAIN layerFS.tfs.fileMap :
               Open(layerFS.tfs, name) = OpenError(name, "not exist")
        /\ (ret.op = "Open" /\ ret.name \notin DOMAIN layerFS.tfs.fileMap) =>
               /\ ret.err = "not exist"
               /\ ~handle.open
               /\ handle.file = NilFile

\* Open has failed with not-exist for the name a member is spelled with in
\* the archive (its cleaned form is the key); the empty path is no key either.
C12_Witness ==
    /\ layerFS.ready
    /\ ret.op = "Open" /\ ret.err = "not exist" /\ ~handle.open
    /\ \E k \in Members : archive[k].name = ret.name
    /\ <<"">> \notin DOMAIN layerFS.tfs.fileMap

\* ------------------------------------------------------ SpecMain: main.go
\* run() from the point where signal.Notify and defer cleanup() have run: the
\* UI runs (and has layers initialized) until p.Run() returns, the goroutine
\* waits for a signal, and the process ends when run() has returned.
Signals == {"SIGINT", "SIGTERM"}

InitMain ==
    /\ archive = <<>>
    /\ layerFS = [ready |-> FALSE, tfs |-> NilFS]
    /\ streamPos = 0
    /\ handle = [open |-> FALSE, name |-> <<"">>, file |-> NilFile]
    /\ listed = <<>>
    /\ pageOne = TRUE
    /\ ret = NoRet
    /\ gor = <<>>
    /\ mu = <<>>
    /\ cacheDir = ""
    /\ cacheDirOnce = FALSE
    /\ layerCache = [d \in DiffIDs |-> NoPath]
    /\ files = <<>>
    /\ dirExists = FALSE
    /\ inodes = <<>>
    /\ lay = [l \in Layers |-> NewLayer]
    /\ diffID \in {f \in [Layers -> DiffIDs] : f[1] = "d1"}
    /\ blob = [total |-> 1, len |-> 1, bad |-> {}]
    /\ faults = 0
    /\ damage = Undamaged
    /\ mainPC = "run"
    /\ sigPC = "wait"
    /\ uiResult = ""
    /\ cleanupCalls = 0
    /\ AppUnused

\* The process has not ended.
Alive == mainPC # "exit"

\* A command of the UI initializes a layer, one step of the call (the steps
\* that need no IO failure).
MainInitializeLayer(l) ==
    /\ Alive
    /\ \/ mainPC = "run" /\ InitializeLayer(l)
       \/ CacheOpen(l)
       \/ CacheIndex(l)
       \/ GetPath(l)
       \/ Create(l)
       \/ Uncompressed(l)
       \/ \E elapsed \in BOOLEAN : CopyRead(l, elapsed)
       \/ CopyEOF(l)
       \/ SeekStart(l)
       \/ Index(l)
       \/ Register(l)

\* cleanup(): CleanupCache, whose error is logged only.
cleanup ==
    /\ CleanupEffect
    /\ cleanupCalls' = cleanupCalls + 1

\* p.Run() returns: nil when the UI quits, an error otherwise; run() returns
\* and its deferred calls are due.
RunReturns(result) ==
    /\ mainPC = "run"
    /\ mainPC' = "deferred"
    /\ uiResult' = result
    /\ UNCHANGED <<sigPC, cleanupCalls, appVars, fsVars, callVars, readVars, layerVars>>

\* A signal is delivered to sigChan: the goroutine's receive returns.
Signal(sig) ==
    /\ Alive
    /\ sigPC = "wait"
    /\ sigPC' = sig
    /\ UNCHANGED <<mainPC, uiResult, cleanupCalls, appVars, fsVars, callVars, readVars, layerVars>>

\* The goroutine: cleanup().
SignalCleanup ==
    /\ Alive
    /\ sigPC \in Signals
    /\ cleanup
    /\ sigPC' = "kill"
    /\ UNCHANGED <<mainPC, uiResult, appVars>>

\* The goroutine: p.Kill(), which makes a running p.Run() return an error.
SignalKill ==
    /\ Alive
    /\ sigPC = "kill"
    /\ sigPC' = "done"
    /\ IF mainPC = "run"
       THEN mainPC' = "deferred" /\ uiResult' = "killed"
       ELSE UNCHANGED <<mainPC, uiResult>>
    /\ UNCHANGED <<cleanupCalls, appVars, fsVars, callVars, readVars, layerVars>>

\* run() returns: the deferred cleanup() runs, and main ends the process.
DeferredCleanup ==
    /\ mainPC = "deferred"
    /\ cleanup
    /\ mainPC' = "exit"
    /\ UNCHANGED <<sigPC, uiResult, appVars>>

NextMain ==
    \/ \E l \in Layers : MainInitializeLayer(l)
    \/ \E result \in {"quit", "error"} : RunReturns(result)
    \/ \E sig \in Signals : Signal(sig)
    \/ SignalCleanup
    \/ SignalKill
    \/ DeferredCleanup

SpecMain == InitMain /\ [][NextMain]_vars

\* C13: when the process has ended, by the UI quitting, by the UI failing or
\* after SIGINT or SIGTERM, cleanup() (CleanupCache) has been called exactly
\* once.
C13_CleanupExactlyOnce == mainPC = "exit" => cleanupCalls = 1

\* A progress value lies in [0, 1].
InUnit(p) == p[2] > 0 /\ 0 <= p[1] /\ p[1] <= p[2]

\* C14: every value handed to the progress callback lies in [0, 1], whatever
\* the declared size and the number of cells the stream delivers, and the
\* copy takes the whole stream whatever the declared size: a call that is
\* past io.Copy has read all of it.
C14_ProgressInUnitInterval ==
    \A l \in Layers :
        /\ \A i \in 1..Len(lay[l].reported) : InUnit(lay[l].reported[i])
        /\ lay[l].pc \in {"seek", "index", "register"} => lay[l].current = blob.len

\* A layer extracted from a stream longer than its declared size: the ratio
\* was reported at a read that had passed the declared size, and clamped.
C14_Witness ==
    \E l \in Layers :
        /\ Succeeded(l)
        /\ lay[l].fs.from = "extract"
        /\ 0 < blob.total /\ blob.total < blob.len
        /\ Len(lay[l].fs.members) = blob.len
        /\ \E i \in 1..Len(lay[l].reported) :
               lay[l].reported[i] = P10 /\ i + 3 <= Len(lay[l].reported)

\* C15: in every filesystem tarfs.New has built, "." is a key whose entry is a
\* directory, Open(".") gives a handle and ReadDir on it succeeds, whatever
\* root member the archive holds.
C15_RootAlwaysListable ==
    layerFS.ready =>
        /\ <<".">> \in DOMAIN layerFS.tfs.fileMap
        /\ IsDir(layerFS.tfs.entries[layerFS.tfs.fileMap[<<".">>]].Header)
        /\ LET o == Open(layerFS.tfs, <<".">>)
           IN  /\ o.err = ""
               /\ \A n \in (0 - 1)..MaxPage :
                      ReadDir(o.file, n).err \in {"", "EOF"}

\* -------------------------------------------- SpecLayer: cache file paths
\* The call of layer l is in createNewLayer with its cache file created.
Extracting(l) == lay[l].pc \in {"uncompressed", "copy", "seek", "index", "register"}

\* The content of a completely copied file of blob d.
WholeBlob(d) == [i \in 1..blob.len |-> d]

\* C23: the path a getCacheFilePath call returns is fresh: it is not the path
\* of a file on disk (which an earlier call returned and os.Create made) and
\* not the path another running call holds.
C23_PathsAreFresh ==
    [][\A l \in Layers :
          (lay[l].pc = "path" /\ lay'[l].pc = "create") =>
              /\ lay'[l].tmpFile \notin DOMAIN files
              /\ \A k \in Layers \ {l} : lay[k].tmpFile # lay'[l].tmpFile]_vars

\* C24: two calls that extract the same DiffID at the same time write to
\* files of their own, and the file a call has copied holds the whole blob
\* when the call rewinds and indexes it.
C24_ConcurrentExtractionsOwnFile ==
    /\ \A l, k \in Layers :
          (l # k /\ diffID[l] = diffID[k] /\ Extracting(l) /\ Extracting(k)) =>
              lay[l].fd # lay[k].fd
    /\ \A l \in Layers :
          (lay[l].pc \in {"seek", "index"} /\ \E k \in Layers \ {l} : diffID[k] = diffID[l]) =>
              inodes[lay[l].fd] = WholeBlob(diffID[l])

\* C25: distinct DiffIDs of layerCache map to distinct paths, and os.Create
\* in the extraction of one DiffID never truncates the file registered for
\* another.
C25_DistinctPathsPerDiffID ==
    /\ [](\A d, e \in DiffIDs :
             (d # e /\ layerCache[d] # NoPath) => layerCache[d] # layerCache[e])
    /\ [][\A l \in Layers :
             (lay[l].pc = "create" /\ lay'[l].pc = "uncompressed") =>
                 \A d \in DiffIDs \ {diffID[l]} :
                     layerCache[d] # lay[l].tmpFile \/ lay[l].tmpFile \notin DOMAIN files]_vars

\* C26: once os.MkdirTemp has failed (cacheDirOnce has run and cacheDir is
\* ""), every getCacheFilePath call returns the error: no call gets as far as
\* os.Create, no file is created and no layer becomes Ready.
C26_MkdirFailureFailsEveryCall ==
    (cacheDirOnce /\ cacheDir = "") =>
        /\ DOMAIN files = {}
        /\ \A l \in Layers :
              /\ lay[l].pc # "create" /\ ~Extracting(l)
              /\ ~lay[l].fs.ready
              /\ lay[l].result \in {"", "failed to get cache file path"}

\* C28: a successful extraction goes through its steps in order, so that the
\* call that registers its file (cacheLayer, l.fs, progress(1.0)) has reported
\* 0.2 and 0.8 and not yet 1.0 as its last value, has no cache entry of its own
\* making, and registers a file that is completely copied and indexed: the
\* file holds the whole blob and the index the call built is the index of
\* that content.
C28_RegisteredFileIsComplete ==
    [][\A l \in Layers :
          (lay[l].pc = "register" /\ lay'[l].pc = "idle") =>
              /\ lay'[l].result = "ok" /\ lay'[l].fs.ready
              /\ layerCache'[diffID[l]] = lay[l].tmpFile
              /\ lay[l].reported[Len(lay[l].reported)] = P08
              /\ lay'[l].reported = Append(lay[l].reported, P10)
              /\ inodes[lay[l].fd] = WholeBlob(diffID[l])
              /\ lay[l].tfs = TarfsNew(inodes[lay[l].fd]).members]_vars

\* C29: a call that initializeFromCache served has reported 0.0, 0.5 and 1.0
\* and nothing else, has made the layer Ready with the filesystem of the
\* cached file, has not called layer.Uncompressed nor cacheLayer, and none of
\* its steps (getCachedLayer, os.Open, tarfs.New) creates a file or changes
\* layerCache.
C29_CacheHitReportsAndLeavesCache ==
    /\ [](\A l \in Layers :
             (lay[l].pc = "idle" /\ lay[l].served) =>
                 /\ lay[l].result = "ok"
                 /\ lay[l].reported = <<P00, P05, P10>>
                 /\ lay[l].fs.ready /\ lay[l].fs.from = "cache"
                 /\ lay[l].unc = 0 /\ ~lay[l].wrote)
    /\ [][\A l \in Layers :
             ((lay[l].pc \in {"open", "cacheIndex"} \/ lay'[l].pc \in {"open", "cacheIndex"})
                 /\ lay'[l] # lay[l]) =>
                 /\ files' = files /\ inodes' = inodes
                 /\ layerCache' = layerCache]_vars

\* A call has been served from the cache entry another call registered.
C29_Witness ==
    \E l \in Layers :
        /\ lay[l].pc = "idle" /\ lay[l].served /\ lay[l].result = "ok"
        /\ lay[l].reported = <<P00, P05, P10>>
        /\ layerCache[diffID[l]] # NoPath
        /\ \E k \in Layers \ {l} : lay[k].wrote

\* The step of the call of layer l in which its copy completes.
CopyCompletes(l) == lay[l].pc = "copy" /\ lay'[l].pc = "seek"

ScanDone(st, pos) ==
    [err |-> "", entries |-> st.entries, fileMap |-> st.fileMap, endPos |-> pos]

\* ScanError_KeepPartial: New returning the index built so far with the error.
ScanError_KeepPartial(st, err) ==
    [err |-> err, entries |-> st.entries, fileMap |-> st.fileMap, endPos |-> 0]

\* tarfs.New: return nil, err.
ScanError(st, err) ==
    [err |-> err, entries |-> NilFS.entries, fileMap |-> NilFS.fileMap, endPos |-> 0]

\* The loop of tarfs.New on a file of len cells, at tr.Next() for member k.
\* tr.Next() first skips what is left of member k-1: its content (a short
\* content is io.ErrUnexpectedEOF) and its padding (a file that ends there is
\* io.EOF); then it reads a header block: no cell left is io.EOF, a part of a
\* block is io.ErrUnexpectedEOF, a malformed header is tar.ErrHeader, and
\* the zero blocks after the last member are io.EOF. On io.EOF the loop ends
\* and New returns the index; any other error is returned.
RECURSIVE NewScan(_, _, _, _, _)
NewScan(ar, k, st, len, bad) ==
    LET hs == st.next
        prev == st.entries[k]
        contentEnd == IF k = 1 THEN 0 ELSE prev.Offset + prev.Size
    IN  IF k > 1 /\ prev.Size > 0 /\ contentEnd > len
        THEN ScanError(st, "unexpected EOF")
        ELSE IF k > 1 /\ hs > contentEnd /\ len < hs
        THEN ScanDone(st, len)
        ELSE IF len = hs
        THEN ScanDone(st, len)
        ELSE IF len - hs < BlockSize
        THEN ScanError(st, "unexpected EOF")
        ELSE IF k > Len(ar)
        THEN IF len - hs - BlockSize \in 1..(BlockSize - 1)
             THEN ScanError(st, "unexpected EOF")
             ELSE ScanDone(st, len)
        ELSE IF k = bad
        THEN ScanError(st, "invalid tar header")
        ELSE NewScan(ar, k + 1, NewMember(st, ar[k]), len, bad)

\* The cells of the file: all of the archive's stream, or its first cut cells.
FileLen(ar, dmg) == IF dmg.cut < 0 THEN Len(TarStream(ar, 1)) ELSE dmg.cut

\* tarfs.New on the file.
NewOnFile(ar, dmg) ==
    NewScan(ar, 1, [entries |-> <<PseudoRoot>>,
                    fileMap |-> [p \in {<<".">>} |-> 1],
                    next |-> 0],
            FileLen(ar, dmg), dmg.bad)

\* The members archive files of SpecIndex are made of.
IndexPool ==
    { Member(<<"a">>, "dir", NoLink, <<>>),
      Member(<<"a", "f">>, "reg", NoLink, <<12, 13, 14>>),
      Member(<<"f">>, "reg", NoLink, <<15, 16>>),
      Member(<<"h">>, "link", <<"f">>, <<>>) }

InitIndex ==
    /\ archive \in SeqsUpTo(IndexPool, MaxMembers)
    /\ damage \in [cut : 0..Len(TarStream(archive, 1)), bad : 0..Len(archive)]
    /\ layerFS = [ready |-> FALSE, tfs |-> NilFS]
    /\ streamPos = 0
    /\ handle = [open |-> FALSE, name |-> <<"">>, file |-> NilFile]
    /\ listed = <<>>
    /\ pageOne = TRUE
    /\ ret = NoRet
    /\ gor = <<>>
    /\ mu = <<>>
    /\ cacheDir = "" /\ cacheDirOnce = FALSE
    /\ layerCache = [d \in DiffIDs |-> NoPath]
    /\ files = <<>> /\ dirExists = FALSE /\ inodes = <<>>
    /\ lay = <<>> /\ diffID = <<>> /\ blob = <<>>
    /\ faults = 0
    /\ MainUnused

\* createNewLayer: tfs, err := tarfs.New(file).
IdxNew ==
    /\ ret.op = ""
    /\ LET r == NewOnFile(archive, damage)
       IN  /\ layerFS' = [ready |-> FALSE,
                          tfs |-> [entries |-> r.entries, fileMap |-> r.fileMap,
                                   endPos |-> r.endPos]]
           /\ streamPos' = r.endPos
           /\ ret' = Ret("New", <<"">>, 0, r.err, <<>>, <<>>)
    /\ UNCHANGED <<archive, handle, listed, pageOne, readVars, mainVars>>
    /\ UNCHANGED <<cacheVars, diskVars, envVars, lay, faults>>

\* createNewLayer: tarfs.New failed, the error is returned.
IdxFail ==
    /\ ret.op = "New" /\ ret.err # ""
    /\ ret' = Ret("InitializeLayer", <<"">>, 0, "failed to create tarfs", <<>>, <<>>)
    /\ UNCHANGED <<archive, layerFS, streamPos, handle, listed, pageOne>>
    /\ UNCHANGED <<readVars, layerVars, mainVars>>

\* createNewLayer: cacheLayer(l.DiffID, tmpFile), l.fs = tfs, return nil.
IdxRegister ==
    /\ ret.op = "New" /\ ret.err = ""
    /\ layerCache' = [layerCache EXCEPT !["d1"] = Path("tmp", 0)]
    /\ layerFS' = [layerFS EXCEPT !.ready = TRUE]
    /\ ret' = Ret("InitializeLayer", <<"">>, 0, "", <<>>, <<>>)
    /\ UNCHANGED <<archive, streamPos, handle, listed, pageOne, readVars, mainVars>>
    /\ UNCHANGED <<cacheDir, cacheDirOnce, diskVars, envVars, lay, faults>>

\* Layer.GetFiles(".") once InitializeLayer has returned.
IdxGetFiles ==
    /\ ret.op = "InitializeLayer"
    /\ LET r == LayerGetFiles(layerFS.ready, layerFS.tfs, <<".">>)
       IN  ret' = Ret("GetFiles", <<".">>, 0, r.err, <<>>, r.files)
    /\ UNCHANGED <<archive, layerFS, streamPos, handle, listed, pageOne>>
    /\ UNCHANGED <<readVars, layerVars, mainVars>>

NextIndex == IdxNew \/ IdxFail \/ IdxRegister \/ IdxGetFiles

SpecIndex == InitIndex /\ [][NextIndex]_vars

\* Where the last member of the archive ends in its stream.
MembersEnd == Len(Stream) - 2 * BlockSize

\* The file is truncated at a member, or holds a malformed header.
Damaged == damage.bad > 0 \/ damage.cut < MembersEnd

\* The index held is the one tarfs.New builds from the first j members.
IndexOfPrefix(j) ==
    LET whole == New(SubSeq(archive, 1, j))
    IN  /\ layerFS.tfs.entries = whole.entries
        /\ layerFS.tfs.fileMap = whole.fileMap

NothingKept ==
    /\ layerFS.tfs = NilFS
    /\ ~layerFS.ready
    /\ layerCache["d1"] = NoPath

\* C16 as stated: tarfs.New on a file that is malformed or truncated at any
\* member returns an error and no filesystem, and a layer that is Ready or
\* registered in the cache holds the index of the whole archive.
C16_IndexAllOrNothing ==
    /\ (ret.op = "New" /\ Damaged) => (ret.err # "" /\ layerFS.tfs = NilFS)
    /\ (layerFS.ready \/ layerCache["d1"] # NoPath) => IndexOfPrefix(Len(archive))

\* C16: when tarfs.New returns an error it returns no filesystem, and
\* InitializeLayer then leaves the layer not Ready and registers nothing; when
\* it succeeds the index is that of the first j members for some j, all of
\* them when the file is not damaged; and a file cut exactly where a member
\* ends is accepted, with the index of the members before the cut.
C16_ErrorKeepsNothingElsePrefix ==
    /\ (ret.op \in {"New", "InitializeLayer"} /\ ret.err # "") => NothingKept
    /\ (ret.op = "New" /\ ret.err = "") =>
          /\ \E j \in 0..Len(archive) : IndexOfPrefix(j)
          /\ ~Damaged => IndexOfPrefix(Len(archive))
    /\ (layerFS.ready \/ layerCache["d1"] # NoPath) =>
          \E j \in 0..Len(archive) : IndexOfPrefix(j)
    /\ (ret.op = "New" /\ damage.bad = 0
          /\ \E j \in 0..Len(archive) :
                damage.cut = Len(TarStream(SubSeq(archive, 1, j), 1)) - 2 * BlockSize)
          => ret.err = ""

\* InitializeLayer has failed on a file whose second header is malformed,
\* after tarfs.New had indexed the first member.
C16_Witness ==
    /\ ret.op = "InitializeLayer" /\ ret.err # ""
    /\ Len(archive) >= 2 /\ damage.bad = 2 /\ damage.cut = Len(Stream)

\* ------------------------------------------------ SpecFS: ReadDir contracts
\* A step that is a ReadDir(n) call on the open handle (Open needs no handle,
\* Close leaves none, ReadFile and GetFiles run without one).
IsReadDirStep == handle.open /\ handle'.open /\ ret'.op = "ReadDir"

\* The children of the handle the cursor has not passed.
Remaining(f) == SubSeq(f.children, f.readPos + 1, Len(f.children))

Min(a, b) == IF a <= b THEN a ELSE b

\* C17: ReadDir(n) with n <= 0 on a directory handle returns, with no error,
\* all children from the cursor to the end and moves the cursor to the end;
\* with the cursor at the end (an empty directory included) the result is
\* empty and the cursor stays.
C17_ReadDirAllRemaining ==
    [][(IsReadDirStep /\ IsDir(handle.file.Header) /\ ret'.n <= 0) =>
          /\ ret'.err = ""
          /\ ret'.list = Remaining(handle.file)
          /\ handle'.file.readPos = Len(handle.file.children)
          /\ handle.file.readPos = Len(handle.file.children) =>
                /\ ret'.list = <<>>
                /\ handle'.file.readPos = handle.file.readPos]_vars

\* A ReadDir(n <= 0) has returned the rest of a listing a ReadDir(1) had
\* begun: the cursor was in the middle and is now at the end.
C17_Witness ==
    /\ handle.open /\ IsDir(handle.file.Header)
    /\ ret.op = "ReadDir" /\ ret.n <= 0 /\ ret.err = ""
    /\ Len(ret.list) >= 1
    /\ Len(listed) > Len(ret.list)
    /\ handle.file.readPos = Len(handle.file.children)

\* C18: ReadDir(n) with n > 0 on a directory handle returns min(n, remaining)
\* children starting at the cursor and advances the cursor by the number
\* returned; with the cursor at the end it fails with io.EOF and returns no
\* entries.
C18_ReadDirPage ==
    [][(IsReadDirStep /\ IsDir(handle.file.Header) /\ ret'.n > 0) =>
          LET f == handle.file
              remaining == Len(f.children) - f.readPos
              cnt == Min(ret'.n, remaining)
          IN  /\ ret'.list = SubSeq(f.children, f.readPos + 1, f.readPos + cnt)
              /\ Len(ret'.list) = cnt
              /\ handle'.file.readPos = f.readPos + Len(ret'.list)
              /\ ret'.err = IF remaining = 0 THEN "EOF" ELSE ""
              /\ remaining = 0 => ret'.list = <<>>]_vars

\* A ReadDir(2) has returned the one child that was left of three, and the
\* cursor is at the end.
C18_Witness ==
    /\ handle.open /\ IsDir(handle.file.Header)
    /\ ret.op = "ReadDir" /\ ret.n = 2 /\ ret.err = ""
    /\ Len(ret.list) = 1 /\ Len(listed) = 3
    /\ handle.file.readPos = Len(handle.file.children)

\* C19: ReadDir on a handle whose entry is not a directory fails with the
\* error of a non-directory (fs.ErrInvalid in a readdir *fs.PathError) for
\* every n, returns no entries and leaves the handle as it was; and GetFiles
\* on a path indexed as a regular file returns an error and no files.
C19_ReadDirOnNonDirectory ==
    /\ [][(IsReadDirStep /\ ~IsDir(handle.file.Header)) =>
             /\ ret'.err = "invalid argument"
             /\ ret'.list = <<>>
             /\ handle'.file = handle.file]_vars
    /\ [](/\ ret.op = "GetFiles" /\ layerFS.ready
          /\ ret.name \in DOMAIN layerFS.tfs.fileMap
          /\ layerFS.tfs.entries[layerFS.tfs.fileMap[ret.name]].Header.typeflag = "reg"
          => ret.err # "" /\ ret.list = <<>>)

\* ReadDir(2) has failed on the handle of a regular file.
C19_Witness ==
    /\ handle.open /\ handle.file.Header.typeflag = "reg"
    /\ ret.op = "ReadDir" /\ ret.n = 2 /\ ret.err = "invalid argument"
    /\ handle.file.readPos = 0

\* The key a hard link's target name is looked up under.
LinkTargetIsKey(h) == h.linkname \in DOMAIN layerFS.tfs.fileMap

\* The archive has a member of the name the link gives as its target, spelled
\* as the link spells it.
LinkTargetInArchive(h) == \E k \in Members : archive[k].name = h.linkname

\* C20 as stated: opening a hard link whose target name is not a key of the
\* index fails with the target-not-found error and returns no handle, and
\* opening a hard link whose target is in the archive never fails with that
\* error.
C20_LinkTargetMissing ==
    (/\ ret.op = "Open" /\ ret.name \in DOMAIN layerFS.tfs.fileMap
     /\ layerFS.tfs.entries[layerFS.tfs.fileMap[ret.name]].Header.typeflag = "link") =>
        LET h == layerFS.tfs.entries[layerFS.tfs.fileMap[ret.name]].Header
        IN  /\ ~LinkTargetIsKey(h) => (ret.err = "target not found" /\ ~handle.open)
            /\ LinkTargetInArchive(h) => ret.err # "target not found"

\* --------------------------------------------- SpecCache: cache.go, by step
\* The functions of cache.go run by goroutines, one step per lock operation,
\* access to the package variables or system call, on a cache that earlier
\* extractions have filled.
CachePaths == {Path("tmp", 0), Path("tmp", 1)}

\* The mappings extractions leave: paths are named layer-0.tar, layer-1.tar by
\* the number of entries, so layer-1.tar is registered only beside layer-0.tar.
FilledCaches ==
    {c \in [DiffIDs -> CachePaths \cup {NoPath}] :
        \A d \in DiffIDs : c[d] = Path("tmp", 1) =>
            \E e \in DiffIDs \ {d} : c[e] = Path("tmp", 0)}

\* Before the first extraction there is no scratch directory (cacheDir is "").
\* Beside it run a goroutine in createNewLayer (extract) and two in
\* initializeFromCache (lookup1, lookup2).
\* The goroutine that runs CleanupCache: where it stands, the keys its range
\* loop has still to visit, the paths whose removal it reported on stderr,
\* whether it has called os.RemoveAll, and the error it returned.
CleanupGor(pc, todo, diag, removedAll, err) ==
    [pc |-> pc, todo |-> todo, diag |-> diag, removedAll |-> removedAll, err |-> err]

InitCache ==
    /\ archive = <<>>
    /\ layerFS = [ready |-> FALSE, tfs |-> NilFS]
    /\ streamPos = 0
    /\ handle = [open |-> FALSE, name |-> <<"">>, file |-> NilFile]
    /\ listed = <<>>
    /\ pageOne = TRUE
    /\ ret = NoRet
    /\ gor = [cleanup |-> CleanupGor("idle", {}, {}, FALSE, ""),
              extract |-> [pc |-> "idle", d |-> "", path |-> NoPath, err |-> ""],
              lookup1 |-> [pc |-> "idle", got |-> NoPath],
              lookup2 |-> [pc |-> "idle", got |-> NoPath]]
    /\ mu = [writer |-> "", readers |-> {}]
    /\ \/ /\ cacheDir = "tmp" /\ cacheDirOnce = TRUE /\ dirExists = TRUE
          /\ layerCache \in FilledCaches
          /\ \E onDisk \in SUBSET CachePaths : files = [p \in onDisk |-> p.n + 1]
       \/ /\ cacheDir = "" /\ cacheDirOnce = FALSE /\ dirExists = FALSE
          /\ layerCache = [d \in DiffIDs |-> NoPath]
          /\ files = <<>>
    /\ inodes = [i \in 1..(Cardinality(DiffIDs) + 1) |-> <<>>]
    /\ lay = <<>> /\ diffID = <<>> /\ blob = <<>> /\ damage = Undamaged
    /\ faults = 0
    /\ MainUnused

cacheFrame == <<fsVars, callVars, envVars, lay, faults, mainVars, inodes>>

\* CleanupCache: if cacheDir == "" { return nil }, else cacheMutex.Lock().
CcLock ==
    /\ gor.cleanup.pc = "idle"
    /\ IF cacheDir = ""
       THEN /\ gor' = [gor EXCEPT !.cleanup.pc = "done"]
            /\ UNCHANGED mu
       ELSE /\ mu.writer = "" /\ mu.readers = {}
            /\ mu' = [mu EXCEPT !.writer = "cleanup"]
            /\ gor' = [gor EXCEPT !.cleanup.pc = "loop",
                                  !.cleanup.todo = {d \in DiffIDs : layerCache[d] # NoPath}]
    /\ UNCHANGED <<cacheFrame, cacheVars, files, dirExists>>

\* CcRemove_StopOnError: the loop returning the error of os.Remove.
CcRemove_StopOnError(d, fails) ==
    /\ gor.cleanup.pc = "loop" /\ d \in gor.cleanup.todo
    /\ LET path == layerCache[d]
           failed == fails \/ path \notin DOMAIN files
       IN  /\ files' = IF failed THEN files
                       ELSE [p \in DOMAIN files \ {path} |-> files[p]]
           /\ gor' = IF failed
                     THEN [gor EXCEPT !.cleanup.pc = "done",
                                      !.cleanup.err = "failed to remove cached file"]
                     ELSE [gor EXCEPT !.cleanup.todo = @ \ {d}]
           /\ mu' = IF failed THEN [mu EXCEPT !.writer = ""] ELSE mu
    /\ UNCHANGED <<cacheFrame, cacheVars, dirExists>>

\* CleanupCache: one turn of the loop, os.Remove(path) for the path of key d;
\* it fails for a file that is not there, or when the system refuses (fails),
\* and the loop goes on after writing to stderr.
CcRemove(d, fails) ==
    /\ gor.cleanup.pc = "loop" /\ d \in gor.cleanup.todo
    /\ LET path == layerCache[d]
           failed == fails \/ path \notin DOMAIN files
       IN  /\ files' = IF failed THEN files
                       ELSE [p \in DOMAIN files \ {path} |-> files[p]]
           /\ gor' = [gor EXCEPT !.cleanup.todo = @ \ {d},
                                 !.cleanup.diag = IF failed THEN @ \cup {path} ELSE @]
    /\ UNCHANGED <<cacheFrame, cacheVars, dirExists, mu>>

\* CleanupCache: layerCache = make(map[string]string), after the loop.
CcClear ==
    /\ gor.cleanup.pc = "loop" /\ gor.cleanup.todo = {}
    /\ layerCache' = [d \in DiffIDs |-> NoPath]
    /\ gor' = [gor EXCEPT !.cleanup.pc = "removeAll"]
    /\ UNCHANGED <<cacheFrame, cacheDir, cacheDirOnce, files, dirExists, mu>>

\* CleanupCache: os.RemoveAll(cacheDir), the return and the deferred Unlock.
\* When it fails the directory and what it could not remove are left.
CcRemoveAll(fails) ==
    /\ gor.cleanup.pc = "removeAll"
    /\ IF fails
       THEN /\ gor' = [gor EXCEPT !.cleanup.pc = "done", !.cleanup.removedAll = TRUE,
                                  !.cleanup.err = "failed to remove cache directory"]
            /\ UNCHANGED <<files, dirExists>>
       ELSE /\ gor' = [gor EXCEPT !.cleanup.pc = "done", !.cleanup.removedAll = TRUE]
            /\ files' = [p \in {q \in DOMAIN files : q.dir # cacheDir} |-> files[p]]
            /\ dirExists' = FALSE
    /\ mu' = [mu EXCEPT !.writer = ""]
    /\ UNCHANGED <<cacheFrame, cacheVars>>

NextCache ==
    \/ CcLock
    \/ \E d \in DiffIDs, fails \in BOOLEAN : CcRemove(d, fails)
    \/ CcClear
    \/ \E fails \in BOOLEAN : CcRemoveAll(fails)

SpecCache == InitCache /\ [][NextCache]_vars

\* --------------------------------- SpecCacheAll: cache.go, every function
Lookups == {"lookup1", "lookup2"}

\* createNewLayer of a layer of DiffID d: getCacheFilePath, which takes no
\* lock (initCacheDir sets cacheDir inside cacheDirOnce, the name is made of
\* cacheDir and len(layerCache)), then os.Create of the path.
XGetPath(d) ==
    /\ gor.extract.pc = "idle"
    /\ cacheDir' = IF cacheDirOnce THEN cacheDir ELSE "tmp"
    /\ dirExists' = IF cacheDirOnce THEN dirExists ELSE TRUE
    /\ cacheDirOnce' = TRUE
    /\ LET p == GetCacheFilePath(cacheDir')
       IN  IF p.dir # "" /\ ~dirExists'
           THEN /\ gor' = [gor EXCEPT !.extract.pc = "done", !.extract.d = d,
                                      !.extract.err = "failed to create cache file"]
                /\ UNCHANGED files
           ELSE /\ gor' = [gor EXCEPT !.extract.pc = "cacheLayer", !.extract.d = d,
                                      !.extract.path = p]
                /\ files' = [q \in DOMAIN files \cup {p} |-> q.n + 1]
    /\ UNCHANGED <<cacheFrame, layerCache, mu>>

\* cacheLayer: cacheMutex.Lock().
XLock ==
    /\ gor.extract.pc = "cacheLayer"
    /\ mu.writer = "" /\ mu.readers = {}
    /\ mu' = [mu EXCEPT !.writer = "extract"]
    /\ gor' = [gor EXCEPT !.extract.pc = "store"]
    /\ UNCHANGED <<cacheFrame, cacheVars, files, dirExists>>

\* cacheLayer: layerCache[diffID] = filePath, and the deferred Unlock.
XStore ==
    /\ gor.extract.pc = "store"
    /\ layerCache' = [layerCache EXCEPT ![gor.extract.d] = gor.extract.path]
    /\ mu' = [mu EXCEPT !.writer = ""]
    /\ gor' = [gor EXCEPT !.extract.pc = "done"]
    /\ UNCHANGED <<cacheFrame, cacheDir, cacheDirOnce, files, dirExists>>

\* getCachedLayer: cacheMutex.RLock(), which waits only for a writer.
LkRLock(g) ==
    /\ gor[g].pc = "idle"
    /\ mu.writer = ""
    /\ mu' = [mu EXCEPT !.readers = @ \cup {g}]
    /\ gor' = [gor EXCEPT ![g].pc = "read"]
    /\ UNCHANGED <<cacheFrame, cacheVars, files, dirExists>>

\* getCachedLayer: return layerCache[diffID], and the deferred RUnlock.
LkRead(g, d) ==
    /\ gor[g].pc = "read"
    /\ mu' = [mu EXCEPT !.readers = @ \ {g}]
    /\ gor' = [gor EXCEPT ![g].pc = "done", ![g].got = layerCache[d]]
    /\ UNCHANGED <<cacheFrame, cacheVars, files, dirExists>>

NextCacheAll ==
    \/ NextCache
    \/ \E d \in DiffIDs : XGetPath(d)
    \/ XLock
    \/ XStore
    \/ \E g \in Lookups : LkRLock(g)
    \/ \E g \in Lookups, d \in DiffIDs : LkRead(g, d)

SpecCacheAll == InitCache /\ [][NextCacheAll]_vars

\* C27: layerCache and cacheDir are written only while cacheMutex is held
\* exclusively, and the step of getCacheFilePath, which reads both, is taken
\* by a goroutine that holds the lock, so it never runs while another
\* goroutine holds cacheMutex exclusively.
C27_SharedStateUnderLock ==
    [][/\ layerCache' # layerCache => mu.writer # ""
       /\ cacheDir' # cacheDir => mu.writer # ""
       /\ (gor.extract.pc = "idle" /\ gor'.extract.pc # "idle") =>
              (mu.writer = "extract" \/ "extract" \in mu.readers)]_vars

\* C22: a CleanupCache some of whose os.Remove calls failed has still cleared
\* the mapping and called os.RemoveAll, it returns an error only when
\* os.RemoveAll failed, and while it runs every file whose os.Remove did not
\* fail is removed: a file of the scratch directory still on disk when the
\* loop is over is one whose removal was reported, or one no key named.
C22_RemoveFailuresDoNotStop ==
    /\ (gor.cleanup.pc = "done" /\ cacheDir # "") =>
          /\ \A d \in DiffIDs : layerCache[d] = NoPath
          /\ gor.cleanup.removedAll
          /\ gor.cleanup.err \in {"", "failed to remove cache directory"}
          /\ gor.cleanup.err = "" => (DOMAIN files = {} /\ ~dirExists)
    /\ (gor.cleanup.pc = "loop" /\ gor.cleanup.todo = {}) =>
          \A d \in DiffIDs :
              (layerCache[d] # NoPath /\ layerCache[d] \notin gor.cleanup.diag) =>
                  layerCache[d] \notin DOMAIN files

\* CleanupCache has returned nil although the removal of a file failed, and
\* nothing is left on disk.
C22_Witness ==
    /\ gor.cleanup.pc = "done" /\ gor.cleanup.err = ""
    /\ gor.cleanup.diag # {}
    /\ DOMAIN files = {}

\* ------------------------------------------------------- SpecKeys: the index
\* tarfs.New and FS.Open on archives whose members come in any order and are
\* named every way a tar header can spell a path: below a directory, with a
\* "./" prefix, with a leading "/", with ".." at the start and in the middle.
KeysPool ==
    { Member(<<"a">>, "dir", NoLink, <<>>),
      Member(<<"a", "f">>, "reg", NoLink, <<12>>),
      Member(<<"a", "k">>, "link", <<"f">>, <<>>),
      Member(<<"f">>, "reg", NoLink, <<15>>),
      Member(<<".", "f">>, "reg", NoLink, <<17>>),
      Member(<<"", "f">>, "reg", NoLink, <<19>>),
      Member(<<"..", "f">>, "reg", NoLink, <<20>>),
      Member(<<"a", "..", "f">>, "reg", NoLink, <<21>>) }

InitKeys ==
    /\ archive \in SeqsUpTo(KeysPool, MaxMembers)
    /\ layerFS = [ready |-> FALSE, tfs |-> NilFS]
    /\ streamPos = 0
    /\ handle = [open |-> FALSE, name |-> <<"">>, file |-> NilFile]
    /\ listed = <<>>
    /\ pageOne = TRUE
    /\ ret = NoRet
    /\ gor = <<>>
    /\ mu = <<>>
    /\ LayerUnused
    /\ MainUnused

SpecKeys ==
    InitKeys /\ [][FSInitializeLayer \/ (\E name \in AskedNames : FSOpen(name)) \/ FSClose]_vars

\* Member k's cleaned name, and whether its parent path was a key when tarfs.New
\* came to it.
KeyOf(k) == Clean(archive[k].name)
Orphan(k) == Dir(KeyOf(k)) \notin DOMAIN New(SubSeq(archive, 1, k - 1)).fileMap

\* The places (entry, position in its Children) where member k's entry is linked.
LinksOf(k) ==
    {<<e, i>> \in (1..Len(layerFS.tfs.entries)) \X (1..MaxMembers + 1) :
        /\ i <= Len(layerFS.tfs.entries[e].Children)
        /\ layerFS.tfs.entries[e].Children[i] = k + 1}

\* The entry now at member k's key is a hard link whose link name is no key.
DanglingAt(k) ==
    LET entry == layerFS.tfs.entries[layerFS.tfs.fileMap[KeyOf(k)]]
    IN  entry.Header.typeflag = "link" /\ entry.Header.linkname \notin DOMAIN layerFS.tfs.fileMap

C32_Shape(k) ==
    /\ Orphan(k) => LinksOf(k) = {}
    /\ ~Orphan(k) => Cardinality(LinksOf(k)) = 1
    /\ KeyOf(k) \in DOMAIN layerFS.tfs.fileMap

\* C32 as stated: a member indexed when its parent path is no key is linked
\* into no child list, not even after its parent appears, it is a key of the
\* index and Open of its path succeeds; every linked entry has one parent.
C32_OrphanOpens ==
    layerFS.ready =>
        \A k \in 1..Len(archive) :
            /\ C32_Shape(k)
            /\ Orphan(k) => Open(layerFS.tfs, KeyOf(k)).err = ""

\* C32 amended: the same, except that Open of the member's path fails when the
\* entry at that path is a hard link whose link name is no key of the index.
C32_OrphanUnlinkedButIndexed ==
    layerFS.ready =>
        \A k \in 1..Len(archive) :
            /\ C32_Shape(k)
            /\ Orphan(k) => (Open(layerFS.tfs, KeyOf(k)).err = "" <=> ~DanglingAt(k))

\* An orphan whose parent directory comes later in the archive has been opened.
C32_Witness ==
    /\ layerFS.ready
    /\ \E k \in 1..Len(archive) :
        /\ Orphan(k)
        /\ \E j \in (k + 1)..Len(archive) : IsDir(archive[j]) /\ KeyOf(j) = Dir(KeyOf(k))
        /\ ret.op = "Open" /\ ret.name = KeyOf(k) /\ ret.err = ""

\* C33: every key of the index is a cleaned relative path: it does not start
\* with "/" and, the root key "." aside, has no "." and no ".." segment,
\* whatever the member names ("./" prefix, leading "/", ".." segments).
C33_KeysCleanRelative ==
    layerFS.ready =>
        \A key \in DOMAIN layerFS.tfs.fileMap :
            /\ key = Clean(key)
            /\ ~IsRooted(key)
            /\ key = <<".">> \/ \A i \in 1..Len(key) : key[i] \notin {"", ".", ".."}

\* ------------------------------------- SpecLayer: the scratch directory, once
\* CleanupCache has removed the scratch directory that cacheDirOnce made.
Removed == cacheDirOnce /\ cacheDir # "" /\ ~dirExists

\* Where a call stands that has not yet created its cache file.
BeforeCreate == {"open", "path", "create"}

\* The scratch directory is made by the one run of cacheDirOnce only, and once
\* removed it stays removed; from then on a call that has not created its
\* cache file, or starts on a layer that is not Ready, goes on to fail at the
\* creation of the cache file and leaves the layer without filesystem.
C34_LaterCallsFail ==
    /\ (dirExists' /\ ~dirExists) => ~cacheDirOnce
    /\ Removed => Removed'
    /\ Removed =>
         \A l \in Layers :
            /\ (lay[l].pc = "idle" /\ ~lay[l].fs.ready) =>
                  lay'[l].pc \in BeforeCreate \cup {"idle"}
            /\ lay[l].pc \in BeforeCreate =>
                  \/ lay'[l].pc \in BeforeCreate
                  \/ /\ lay'[l].pc = "idle"
                     /\ lay'[l].result = "failed to create cache file"
                     /\ ~lay'[l].fs.ready

\* C34 as stated: the scratch directory is created at most once; after
\* CleanupCache has removed it it is never recreated, every later
\* InitializeLayer of a layer that is not Ready fails at the creation of the
\* cache file, and the cache mapping stays empty.
C34_MappingStaysEmpty ==
    [][/\ C34_LaterCallsFail
       /\ Removed => \A d \in DiffIDs : layerCache'[d] = NoPath]_vars

\* C34 amended: the same, except that the mapping gets an entry from a call
\* that had created its cache file before CleanupCache ran and registers it
\* afterwards; no other step adds to the mapping.
C34_ScratchDirMadeOnce ==
    [][/\ C34_LaterCallsFail
       /\ (Removed /\ \E d \in DiffIDs : layerCache'[d] \notin {NoPath, layerCache[d]}) =>
             \E l \in Layers : lay[l].pc = "register" /\ lay'[l].wrote]_vars

\* After one layer was extracted and CleanupCache removed the directory, the
\* call of another layer has failed at the creation of its cache file.
C34_Witness ==
    /\ Removed
    /\ faults = 0
    /\ \E l, m \in Layers :
        /\ lay[m].fs.ready /\ lay[m].fs.from = "extract"
        /\ lay[l].pc = "idle" /\ ~lay[l].fs.ready
        /\ lay[l].result = "failed to create cache file"
        /\ lay[l].reported = <<P00>>

\* ------------------------------------------------- SpecPull: NewImage's pull
\* A v1.Update and the updates the registry client may send: so much complete
\* of a total, or of a total that is not known (0).
Update(complete, total) == [Complete |-> complete, Total |-> total]
Updates == {u \in [Complete : 0..MaxTotal, Total : 0..MaxTotal] :
               u.Total = 0 \/ u.Complete <= u.Total}

\* A progress value float64(Complete) / float64(Total) is the pair of the two.
One == <<1, 1>>
Greater(a, b) == a[1] * b[2] > b[1] * a[2]

\* NewImage has made progressChan and started the goroutine that drains it,
\* with last = 0; remote.Image is running. calls is what the progress callback
\* has been handed, in the order of the calls.
InitPull ==
    /\ archive = <<>>
    /\ layerFS = [ready |-> FALSE, tfs |-> NilFS]
    /\ streamPos = 0
    /\ handle = [open |-> FALSE, name |-> <<"">>, file |-> NilFile]
    /\ listed = <<>>
    /\ pageOne = TRUE
    /\ ret = NoRet
    /\ gor = <<>>
    /\ mu = <<>>
    /\ LayerUnused
    /\ mainPC = "" /\ sigPC = "" /\ uiResult = "" /\ cleanupCalls = 0
    /\ pull = [pc |-> "pulling", progressChan |-> <<>>, closed |-> FALSE, sent |-> 0,
               drain |-> "range", last |-> <<0, 1>>, calls |-> <<>>]
    /\ picker = <<>>
    /\ ui = <<>>

otherThanPull == <<fsVars, callVars, readVars, layerVars, runVars, picker, ui>>

\* remote.Image sends an update on the channel (buffered, so the send does not
\* wait for the goroutine).
RemoteSend(update) ==
    /\ pull.pc = "pulling"
    /\ pull.sent < MaxUpdates
    /\ pull' = [pull EXCEPT !.progressChan = Append(@, update), !.sent = @ + 1]
    /\ UNCHANGED otherThanPull

\* remote.Image returns an error: NewImage returns it, the channel stays open.
RemoteFails ==
    /\ pull.pc = "pulling"
    /\ pull' = [pull EXCEPT !.pc = "failed"]
    /\ UNCHANGED otherThanPull

\* NewImage's next statement once remote.Image returns the image:
\* close(progressChan), then progress(1.0).
NewImage ==
    /\ \/ pull.pc = "pulling" /\ pull' = [pull EXCEPT !.pc = "close"]
       \/ pull.pc = "close" /\ pull' = [pull EXCEPT !.pc = "final", !.closed = TRUE]
       \/ pull.pc = "final" /\ pull' = [pull EXCEPT !.pc = "done", !.calls = Append(@, One)]
    /\ UNCHANGED otherThanPull

\* The goroutine's range over progressChan: it receives the oldest update and
\* hands Complete / Total to progress when Total > 0 and the value is above
\* last; it leaves the loop when the channel is closed and empty.
Drain ==
    /\ pull.drain = "range"
    /\ IF pull.progressChan # <<>>
       THEN LET update == Head(pull.progressChan)
                current == <<update.Complete, update.Total>>
            IN  pull' = IF update.Total > 0 /\ Greater(current, pull.last)
                        THEN [pull EXCEPT !.progressChan = Tail(@), !.last = current,
                                          !.calls = Append(@, current)]
                        ELSE [pull EXCEPT !.progressChan = Tail(@)]
       ELSE /\ pull.closed
            /\ pull' = [pull EXCEPT !.drain = "exit"]
    /\ UNCHANGED otherThanPull

SpecPull ==
    InitPull /\ [][(\E update \in Updates : RemoteSend(update)) \/ RemoteFails \/ NewImage \/ Drain]_vars

\* C35: the values handed to the progress callback during a remote pull are
\* strictly increasing, and once NewImage has made its final progress(1.0)
\* call that 1.0 is the last value: no update of the goroutine comes after it.
C35_ProgressIncreasesToOne ==
    /\ \A i \in 1..Len(pull.calls) - 1 : Greater(pull.calls[i + 1], pull.calls[i])
    /\ pull.pc = "done" => pull.calls[Len(pull.calls)] = One

\* --------------------------------------------- SpecPicker: filepicker.Model
\* A directory entry, and the tree the picker browses: per directory its
\* entries as loadFiles sorts them, directories first and then by name.
DirEntry(name, isDir) == [name |-> name, isDir |-> isDir]

Tree(p) ==
    IF p = <<".">> THEN <<DirEntry("a", TRUE), DirEntry("b", TRUE), DirEntry(".g", FALSE)>>
    ELSE IF p = <<"b">> THEN <<DirEntry("bb", FALSE)>>
    ELSE <<>>

\* The characters of a name and of a filter; "" is <<>>.
Chars(name) ==
    IF name = ".g" THEN <<".", "g">> ELSE IF name = "bb" THEN <<"b", "b">> ELSE <<name>>

\* strings.ToLower and strings.Contains.
ToLower(s) == [i \in 1..Len(s) |-> IF s[i] = "G" THEN "g" ELSE s[i]]
Contains(s, sub) ==
    \E i \in 0..(Len(s) - Len(sub)) : SubSeq(s, i + 1, i + Len(sub)) = sub

\* filepicker.New(fsys).
NewPicker(height) ==
    [files |-> <<>>, currentPath |-> <<".">>, selectedIndex |-> 0,
     selectedFile |-> "", selectedAbsPath |-> <<"">>,
     filterStr |-> <<>>, filterMode |-> FALSE, pendingKey |-> "",
     showHidden |-> FALSE, showHelp |-> FALSE, height |-> height,
     lastMessage |-> "", messageTimer |-> 0]

\* Model.loadFiles(focusPath): the filesLoadedMsg it returns.
loadFiles(m, focusPath) ==
    LET keep(e) == m.showHidden \/ Chars(e.name)[1] # "."
    IN  [files |-> SelectSeq(Tree(m.currentPath), keep), focusPath |-> focusPath]

\* Model.getVisibleFiles.
getVisibleFiles(m) ==
    IF m.filterStr = <<>> \/ m.filterStr = <<"/">> THEN m.files
    ELSE LET filter == ToLower(IF Head(m.filterStr) = "/" THEN Tail(m.filterStr)
                                                            ELSE m.filterStr)
             match(file) == Contains(ToLower(Chars(file.name)), filter)
         IN  SelectSeq(m.files, match)

getVisibleFilesLength(m) == Len(getVisibleFiles(m))

\* The keys the terminal sends: the runes (tea.KeyRunes) and the named keys.
Runes == {"b", "g", "G", "/", ".", "y", "q"}
NamedKeys == {"up", "down", "left", "right", "pgup", "pgdown", "enter", "esc",
              "backspace", "tab"}
Keys == Runes \cup NamedKeys

\* What Update returns: the model and the command, or a panic (an index out of
\* range).
\* A command is nil (""), tea.Quit, tick() or a load with the message it brings.
Cmd(kind, msg) == [kind |-> kind, msg |-> msg]
NoMsg == [files |-> <<>>, focusPath |-> ""]
Returns(m, kind) == [m |-> m, cmd |-> Cmd(kind, NoMsg), panic |-> FALSE]
Panics(m) == [m |-> m, cmd |-> Cmd("", NoMsg), panic |-> TRUE]
Load(m, focusPath) == [m |-> m, cmd |-> Cmd("load", loadFiles(m, focusPath)), panic |-> FALSE]

\* "Adjust cursor position if it's out of bounds".
Adjusted(m) ==
    LET visibleLen == getVisibleFilesLength(m)
    IN  IF visibleLen > 0 /\ m.selectedIndex >= visibleLen
        THEN [m EXCEPT !.selectedIndex = visibleLen - 1] ELSE m

\* FilterKey_EscapeKeepsFilter: FilterKey with Escape leaving the filter as it is.
FilterKey_EscapeKeepsFilter(m, k) ==
    IF k = "esc" THEN Returns([m EXCEPT !.filterMode = FALSE], "")
    ELSE IF k = "backspace"
    THEN IF Len(m.filterStr) > 1
         THEN Returns(Adjusted([m EXCEPT !.filterStr = Front(@)]), "")
         ELSE Returns(m, "")
    ELSE IF k = "enter" THEN Returns([m EXCEPT !.filterMode = FALSE], "")
    ELSE IF k \in Runes THEN Returns(Adjusted([m EXCEPT !.filterStr = Append(@, k)]), "")
    ELSE Returns(m, "")

\* Update on a tea.KeyMsg in filter mode.
FilterKey(m, k) ==
    IF k = "esc" THEN Returns([m EXCEPT !.filterStr = <<>>, !.filterMode = FALSE], "")
    ELSE IF k = "backspace"
    THEN IF Len(m.filterStr) > 1
         THEN Returns(Adjusted([m EXCEPT !.filterStr = Front(@)]), "")
         ELSE Returns(m, "")
    ELSE IF k = "enter" THEN Returns([m EXCEPT !.filterMode = FALSE], "")
    ELSE IF k \in Runes THEN Returns(Adjusted([m EXCEPT !.filterStr = Append(@, k)]), "")
    ELSE Returns(m, "")

\* Update on the key after a pending "y": "p" copies the selected path (the
\* clipboard command works or fails), any other key drops the sequence.
PendingKey(m, k, copied) ==
    LET visibleFiles == getVisibleFiles(m)
    IN  IF m.pendingKey = "y" /\ k = "p"
        THEN IF Len(visibleFiles) = 0 THEN Returns([m EXCEPT !.pendingKey = ""], "")
             ELSE IF m.selectedIndex + 1 \notin DOMAIN visibleFiles THEN Panics(m)
             ELSE Returns([m EXCEPT !.lastMessage = IF copied THEN "copied" ELSE "failed",
                                    !.messageTimer = 1, !.pendingKey = ""], "tick")
        ELSE Returns([m EXCEPT !.pendingKey = ""], "")

\* Update on a key in normal mode, no key pending.
NormalKey(m, k) ==
    LET visibleFiles == getVisibleFiles(m)
        visibleLen == Len(visibleFiles)
    IN  IF k = "y" THEN Returns([m EXCEPT !.pendingKey = "y"], "")
        ELSE IF k = "?" THEN Returns([m EXCEPT !.showHelp = ~@], "")
        ELSE IF k \in {"q", "ctrl+c"} THEN Returns(m, "quit")
        ELSE IF k \in {"up", "k"}
        THEN Returns(IF m.selectedIndex > 0 THEN [m EXCEPT !.selectedIndex = @ - 1] ELSE m, "")
        ELSE IF k \in {"down", "j"}
        THEN Returns(IF m.selectedIndex < visibleLen - 1
                     THEN [m EXCEPT !.selectedIndex = @ + 1] ELSE m, "")
        ELSE IF k = "g" THEN Returns([m EXCEPT !.selectedIndex = 0], "")
        ELSE IF k = "G" THEN Returns([m EXCEPT !.selectedIndex = visibleLen - 1], "")
        ELSE IF k \in {"K", "pgup"}
        THEN Returns([m EXCEPT !.selectedIndex =
                        IF @ - m.height < 0 THEN 0 ELSE @ - m.height], "")
        ELSE IF k \in {"J", "pgdown"}
        THEN Returns([m EXCEPT !.selectedIndex =
                        IF @ + m.height >= visibleLen THEN visibleLen - 1
                        ELSE @ + m.height], "")
        ELSE IF k \in {"left", "h", "esc"}
        THEN IF m.currentPath # <<".">>
             THEN LET currentBase == Base(m.currentPath)
                      parentPath == Dir(m.currentPath)
                  IN  Load([m EXCEPT !.currentPath = parentPath, !.selectedIndex = 0,
                                     !.selectedFile = "", !.selectedAbsPath = <<"">>],
                           currentBase)
             ELSE Returns(m, "")
        ELSE IF k \in {"right", "l", "enter"}
        THEN IF visibleLen = 0 THEN Returns(m, "")
             ELSE IF m.selectedIndex + 1 \notin DOMAIN visibleFiles THEN Panics(m)
             ELSE LET selected == visibleFiles[m.selectedIndex + 1]
                  IN  IF selected.isDir
                      THEN Load([m EXCEPT !.currentPath = Join(m.currentPath, selected.name),
                                          !.selectedIndex = 0, !.selectedFile = "",
                                          !.selectedAbsPath = <<"">>], "")
                      ELSE Returns([m EXCEPT !.selectedFile = selected.name,
                                             !.selectedAbsPath =
                                                 Join(m.currentPath, selected.name)], "")
        ELSE IF k = "." THEN Load([m EXCEPT !.showHidden = ~@], "")
        ELSE IF k = "/" THEN Returns([m EXCEPT !.filterStr = <<"/">>, !.filterMode = TRUE], "")
        ELSE Returns(m, "")

\* Model.Update on a tea.KeyMsg.
UpdateKey(m, k, copied) ==
    IF m.filterMode THEN FilterKey(m, k)
    ELSE IF m.pendingKey # "" THEN PendingKey(m, k, copied)
    ELSE NormalKey(m, k)

\* Model.Update on a filesLoadedMsg without error.
UpdateLoaded(m, msg) ==
    LET hits == {i \in 1..Len(msg.files) : msg.files[i].name = msg.focusPath}
        first == CHOOSE i \in hits : \A j \in hits : i <= j
        focused == IF msg.focusPath # "" /\ hits # {} THEN first - 1 ELSE m.selectedIndex
        capped == IF focused >= Len(msg.files) THEN Len(msg.files) - 1 ELSE focused
    IN  [m EXCEPT !.files = msg.files,
                  !.selectedIndex = IF capped < 0 THEN 0 ELSE capped]

\* The heights SetHeight has given the picker: none yet, or two rows.
Heights == {0, 2}

\* The picker as its parent made it, with the command of Init in flight.
\* pending holds the filesLoadedMsg of the commands that have not delivered.
InitPicker ==
    /\ archive = <<>>
    /\ layerFS = [ready |-> FALSE, tfs |-> NilFS]
    /\ streamPos = 0
    /\ handle = [open |-> FALSE, name |-> <<"">>, file |-> NilFile]
    /\ listed = <<>>
    /\ pageOne = TRUE
    /\ ret = NoRet
    /\ gor = <<>>
    /\ mu = <<>>
    /\ LayerUnused
    /\ mainPC = "" /\ sigPC = "" /\ uiResult = "" /\ cleanupCalls = 0
    /\ pull = <<>>
    /\ ui = <<>>
    /\ \E height \in Heights :
         picker = [m |-> NewPicker(height), panicked |-> FALSE,
                   pending |-> {loadFiles(NewPicker(height), "")}]

otherThanPicker == <<fsVars, callVars, readVars, layerVars, runVars, pull, ui>>

\* The program delivers a key to Update; a load command it returns is in
\* flight, and no key that loads is pressed before it has delivered. The
\* clipboard command of "yp" works or fails.
PickerKey(k, copied) ==
    /\ ~picker.panicked
    /\ picker.m.filterMode /\ k \in Runes => Len(picker.m.filterStr) <= MaxFilter
    /\ LET r == UpdateKey(picker.m, k, copied)
           loads == r.cmd.kind = "load"
       IN  /\ loads => picker.pending = {}
           /\ picker' = [m |-> r.m, panicked |-> r.panic,
                         pending |-> IF loads THEN picker.pending \cup {r.cmd.msg}
                                     ELSE picker.pending]
    /\ UNCHANGED otherThanPicker

\* A load command delivers its filesLoadedMsg.
PickerLoaded ==
    /\ ~picker.panicked
    /\ \E msg \in picker.pending :
         picker' = [picker EXCEPT !.m = UpdateLoaded(picker.m, msg), !.pending = @ \ {msg}]
    /\ UNCHANGED otherThanPicker

NextPicker ==
    \/ \E k \in Keys, copied \in BOOLEAN : PickerKey(k, copied)
    \/ PickerLoaded

SpecPicker == InitPicker /\ [][NextPicker]_vars

\* C36: after any sequence of keys and file-load messages selectedIndex is
\* never negative and, whenever the visible list is not empty, an index into it.
C36_SelectedIndexValid ==
    picker # <<>> =>
        /\ picker.m.selectedIndex >= 0
        /\ getVisibleFilesLength(picker.m) > 0 =>
              picker.m.selectedIndex < getVisibleFilesLength(picker.m)

\* The model in state m but for its filter and its cursor.
SameButFilter(m, n) == n = [m EXCEPT !.filterStr = n.filterStr, !.selectedIndex = n.selectedIndex]

\* What Update does to a picker in filter mode, key by key: a rune is appended
\* and nothing else happens, backspace leaves the leading "/", Enter leaves the
\* mode and keeps the filter, Escape leaves it and clears the filter, any other
\* key changes nothing; no key gives a command.
C37_InsideFilterMode ==
    picker.m.filterMode =>
        /\ picker.m.filterStr # <<>> /\ Head(picker.m.filterStr) = "/"
        /\ \A k \in Keys \cup {"ctrl+c", "?", "j", "k"}, copied \in BOOLEAN :
            LET m == picker.m
                r == UpdateKey(m, k, copied)
            IN  /\ r.cmd.kind = "" /\ ~r.panic
                /\ k \in Runes =>
                      /\ r.m.filterStr = Append(m.filterStr, k)
                      /\ r.m.filterMode /\ SameButFilter(m, r.m)
                /\ k = "backspace" =>
                      /\ r.m.filterStr = IF Len(m.filterStr) > 1 THEN Front(m.filterStr)
                                                                   ELSE m.filterStr
                      /\ Head(r.m.filterStr) = "/"
                      /\ r.m.filterMode /\ SameButFilter(m, r.m)
                /\ k = "enter" => r.m = [m EXCEPT !.filterMode = FALSE]
                /\ k = "esc" => r.m = [m EXCEPT !.filterMode = FALSE, !.filterStr = <<>>]
                /\ k \notin Runes \cup {"backspace", "enter", "esc"} => r.m = m

\* C37 as stated: "/" enters filter mode with the filter "/", and filter mode
\* is closed as C37_InsideFilterMode says.
C37_SlashAlwaysEnters ==
    picker # <<>> =>
        /\ C37_InsideFilterMode
        /\ ~picker.m.filterMode =>
              LET r == UpdateKey(picker.m, "/", TRUE)
              IN  r.m.filterMode /\ r.m.filterStr = <<"/">>

\* C37 amended: "/" enters filter mode with the filter "/" unless a "y" is
\* pending, when it only ends the key sequence; the rest as stated.
C37_FilterModeClosed ==
    picker # <<>> =>
        /\ C37_InsideFilterMode
        /\ ~picker.m.filterMode =>
              LET r == UpdateKey(picker.m, "/", TRUE)
              IN  IF picker.m.pendingKey = ""
                  THEN r.m = [picker.m EXCEPT !.filterMode = TRUE, !.filterStr = <<"/">>]
                  ELSE r.m = [picker.m EXCEPT !.pendingKey = ""]

\* The picker is in filter mode with a rune typed after the "/", over a list
\* that is not empty.
C37_Witness ==
    /\ picker # <<>>
    /\ picker.m.filterMode
    /\ picker.m.filterStr = <<"/", "b">>
    /\ Len(picker.m.files) > 0

\* ------------------------------------------------------- SpecUI: ui.Model
\* The UI once the image is loaded: the list of layers is shown (LayerMode) and
\* the tick chain of NewModel is alive. A load is numbered by the order of its
\* request, which also stands for its layer (the &layerCopy of the request).
\* Of the model, mode, currentLayer, pendingLayer (0 is nil), progress and the
\* loading bar's percent (0 or 1.0, written 1); of the program around it, the
\* global progressChan, the load commands, the running viewFile command, the
\* live tick chains and the transitionMsg that are due.
NoLoads == [n \in 1..MaxLoads |-> "none"]

InitUI ==
    /\ archive = <<>>
    /\ layerFS = [ready |-> FALSE, tfs |-> NilFS]
    /\ streamPos = 0
    /\ handle = [open |-> FALSE, name |-> <<"">>, file |-> NilFile]
    /\ listed = <<>>
    /\ pageOne = TRUE
    /\ ret = NoRet
    /\ gor = <<>>
    /\ mu = <<>>
    /\ LayerUnused
    /\ mainPC = "" /\ sigPC = "" /\ uiResult = "" /\ cleanupCalls = 0
    /\ pull = <<>>
    /\ picker = <<>>
    /\ ui = [mode |-> "LayerMode", currentLayer |-> 0, pendingLayer |-> 0,
             progress |-> 0, percent |-> 0,
             progressChan |-> [buf |-> <<>>, closed |-> TRUE],
             loads |-> NoLoads, requested |-> 0, viewing |-> FALSE,
             ticks |-> 1, transitions |-> 0, panicked |-> FALSE]

otherThanUI == <<fsVars, callVars, readVars, layerVars, runVars, pull, picker>>

\* The loads that were requested and whose loadingLayerMsg is not handled yet.
InFlight == {n \in 1..MaxLoads : ui.loads[n] \in {"run", "ran", "ok", "err"}}
Requested == {n \in 1..MaxLoads : ui.loads[n] # "none"}

\* Update on a tea.KeyMsg other than quit: nothing in LoadingMode; enter on a
\* layer starts its load (initializeLayer makes a new progressChan and starts a
\* tick chain beside the load command), enter on a file of the picker starts
\* viewFile; h at the picker's root goes back to the layers, back in ViewMode
\* to the picker.
UIKey(k, onFile) ==
    /\ ~ui.panicked
    /\ \/ /\ ui.mode = "LoadingMode"
          /\ UNCHANGED ui
       \/ /\ ui.mode = "LayerMode" /\ k = "enter"
          /\ Cardinality(Requested) < MaxLoads
          /\ LET n == Cardinality(Requested) + 1
             IN  ui' = [ui EXCEPT !.mode = "LoadingMode", !.progress = 0, !.percent = 0,
                                  !.progressChan = [buf |-> <<>>, closed |-> FALSE],
                                  !.loads[n] = "run", !.requested = n,
                                  !.ticks = @ + 1]
       \/ /\ ui.mode = "FileMode" /\ k = "enter" /\ onFile /\ ~ui.viewing
          /\ ui' = [ui EXCEPT !.mode = "LoadingMode", !.viewing = TRUE]
       \/ /\ ui.mode = "FileMode" /\ k = "h"
          /\ ui' = [ui EXCEPT !.mode = "LayerMode", !.currentLayer = 0]
       \/ /\ ui.mode = "ViewMode" /\ k = "h"
          /\ ui' = [ui EXCEPT !.mode = "FileMode"]
    /\ UNCHANGED otherThanUI

\* The load command of initializeLayer, load n: InitializeLayer fails, or it
\* ends with progress(1.0), which is sent to progressChan unless the channel is
\* full; then progressChan is closed and the loadingLayerMsg is on its way.
\* Sending on a closed channel and closing it twice panic.
LoadCmd(n) ==
    /\ ~ui.panicked
    /\ \/ /\ ui.loads[n] = "run"
          /\ IF ui.progressChan.closed
             THEN ui' = [ui EXCEPT !.panicked = TRUE]
             ELSE ui' = [ui EXCEPT !.loads[n] = "ran",
                                   !.progressChan.buf =
                                       IF Len(@) < ChanSize THEN Append(@, 1) ELSE @]
       \/ /\ ui.loads[n] \in {"run", "ran"}
          /\ IF ui.progressChan.closed
             THEN ui' = [ui EXCEPT !.panicked = TRUE]
             ELSE ui' = [ui EXCEPT !.loads[n] = IF ui.loads[n] = "ran" THEN "ok" ELSE "err",
                                   !.progressChan.closed = TRUE]
    /\ UNCHANGED otherThanUI

\* Update on the loadingLayerMsg of load n.
LoadingLayerMsg(n) ==
    /\ ~ui.panicked
    /\ ui.loads[n] \in {"ok", "err"}
    /\ ui' = IF ui.loads[n] = "err"
             THEN [ui EXCEPT !.loads[n] = "failed", !.mode = "LayerMode"]
             ELSE IF ui.mode = "LoadingMode"
             THEN [ui EXCEPT !.loads[n] = "loaded", !.progress = 1, !.percent = 1,
                             !.pendingLayer = n, !.transitions = @ + 1]
             ELSE [ui EXCEPT !.loads[n] = "loaded"]
    /\ UNCHANGED otherThanUI

\* viewFile returns and Update handles its viewFileMsg: with an error only the
\* message line changes, without one the file is shown (ViewMode).
ViewFileMsg(err) ==
    /\ ~ui.panicked
    /\ ui.viewing
    /\ ui' = IF err THEN [ui EXCEPT !.viewing = FALSE]
             ELSE [ui EXCEPT !.viewing = FALSE, !.mode = "ViewMode"]
    /\ UNCHANGED otherThanUI

\* Update on the tickMsg of a live chain: a value waiting in progressChan
\* becomes m.progress; otherwise, in LoadingMode, a bar at 1.0 ends the chain,
\* with a transitionMsg when there is a pending layer, and a bar below 1.0 is
\* set to m.progress; in every other case the chain goes on.
TickMsg ==
    /\ ~ui.panicked
    /\ ui.ticks > 0
    /\ ui' = IF ui.progressChan.buf # <<>>
             THEN [ui EXCEPT !.progress = Head(ui.progressChan.buf),
                             !.progressChan.buf = Tail(@)]
             ELSE IF ui.mode = "LoadingMode"
             THEN IF ui.percent = 1
                  THEN IF ui.pendingLayer # 0
                       THEN [ui EXCEPT !.ticks = @ - 1, !.transitions = @ + 1]
                       ELSE [ui EXCEPT !.ticks = @ - 1]
                  ELSE [ui EXCEPT !.percent = ui.progress]
             ELSE ui
    /\ UNCHANGED otherThanUI

\* Update on a transitionMsg.
TransitionMsg ==
    /\ ~ui.panicked
    /\ ui.transitions > 0
    /\ ui' = [ui EXCEPT !.transitions = @ - 1, !.currentLayer = ui.pendingLayer,
                        !.mode = "FileMode"]
    /\ UNCHANGED otherThanUI

NextUI ==
    \/ \E k \in {"enter", "h", "x"}, onFile \in BOOLEAN : UIKey(k, onFile)
    \/ \E n \in 1..MaxLoads : LoadCmd(n)
    \/ \E n \in 1..MaxLoads : LoadingLayerMsg(n)
    \/ \E err \in BOOLEAN : ViewFileMsg(err)
    \/ TickMsg
    \/ TransitionMsg

SpecUI == InitUI /\ [][NextUI]_vars

\* The program runs every command and delivers every message; keys come when
\* the user presses them.
FairUI ==
    /\ SpecUI
    /\ \A n \in 1..MaxLoads : WF_vars(LoadCmd(n)) /\ WF_vars(LoadingLayerMsg(n))
    /\ WF_vars(\E err \in BOOLEAN : ViewFileMsg(err))
    /\ WF_vars(TickMsg /\ ui' # ui)
    /\ WF_vars(TransitionMsg)

\* C38: at most one load is in flight: from the request of a load until its
\* loadingLayerMsg is handled no key starts another one.
C38_OneLoadAtATime == ui # <<>> => Cardinality(InFlight) <= 1

\* C39: when the UI goes from LoadingMode to FileMode the layer it shows is
\* the one requested last, and the loadingLayerMsg of that load has been
\* handled.
C39_TransitionShowsRequested ==
    [][(ui.mode = "LoadingMode" /\ ui'.mode = "FileMode") =>
          /\ ui'.currentLayer = ui.requested
          /\ ui.loads[ui.requested] = "loaded"]_vars

\* C40: the UI does not stay in LoadingMode: once the commands have run and
\* their messages are handled it is in another mode.
C40_LeavesLoadingMode == (ui.mode = "LoadingMode") ~> (ui.mode # "LoadingMode")

====
